---- MODULE Spec2Model ----
(***************************************************************************)
(* The document-store layer of backend/src/db/baseModel.js: models created *)
(* by createModel over one key-value table, with the clock and the id      *)
(* generator the layer reads.                                              *)
(***************************************************************************)
EXTENDS Integers, Sequences, FiniteSets, TLC

VARIABLES table, now, nextId, held, last, env

vars == <<table, now, nextId, held, last, env>>

(***************************************************************************)
(* Bounds of the model.                                                    *)
(***************************************************************************)
\* The clock takes the instants 0..MaxClock.
MaxClock == 1
\* crypto.randomUUID is called at most MaxCreates times.
MaxCreates == 2
\* How many documents a store holds when a run of queries starts.
MaxDocs == 3
\* How many Like documents are created before duplicates are removed.
MaxLikes == 3

(***************************************************************************)
(* JavaScript values.  A value is a tagged tuple; a document (and any      *)
(* object) is a function from field names to values.  A string is either a *)
(* literal or the toISOString() text of an instant.                        *)
(***************************************************************************)
Str(s) == <<"str", s>>
Iso(t) == <<"iso", t>>
Num(n) == <<"num", n>>
Bool(b) == <<"bool", b>>
Null == <<"null">>
Undef == <<"undef">>
DateV(t) == <<"date", t>>
Obj(f) == <<"obj", f>>
Arr(s) == <<"arr", s>>

NaN == <<"nan">>

Tag(v) == v[1]

EmptyDoc == <<>>

\* { ...a, ...b }: the fields of b win.
Spread(a, b) == [k \in (DOMAIN a) \cup (DOMAIN b) |-> IF k \in DOMAIN b THEN b[k] ELSE a[k]]

\* obj[key] of a document: undefined when the key is absent.
Field(doc, key) == IF key \in DOMAIN doc THEN doc[key] ELSE Undef

Digit(n) == CASE n = 0 -> "0" [] n = 1 -> "1" [] n = 2 -> "2" [] n = 3 -> "3" [] n = 4 -> "4"
              [] n = 5 -> "5" [] n = 6 -> "6" [] n = 7 -> "7" [] n = 8 -> "8" [] OTHER -> "9"

\* Date.prototype.toISOString of the instant t (seconds of 1970-01-01).
IsoText(t) == "1970-01-01T00:00:0" \o Digit(t) \o ".000Z"

\* Date.prototype.toString of the instant t.
DateText(t) == "Thu Jan 01 1970 00:00:0" \o Digit(t) \o " GMT+0000"

RECURSIVE JoinArr(_, _)
RECURSIVE ToStr(_)
\* String(v), also what a template literal `${v}` yields.
ToStr(v) ==
  CASE Tag(v) = "str" -> v[2]
    [] Tag(v) = "iso" -> IsoText(v[2])
    [] Tag(v) = "num" -> Digit(v[2])
    [] Tag(v) = "bool" -> (IF v[2] THEN "true" ELSE "false")
    [] Tag(v) = "null" -> "null"
    [] Tag(v) = "undef" -> "undefined"
    [] Tag(v) = "date" -> DateText(v[2])
    [] Tag(v) = "obj" -> "[object Object]"
    [] Tag(v) = "arr" -> JoinArr(v[2], 1)

\* Array.prototype.join(","): null and undefined elements give the empty text.
JoinArr(s, i) ==
  IF i > Len(s) THEN ""
  ELSE (IF Tag(s[i]) \in {"null", "undef"} THEN "" ELSE ToStr(s[i]))
       \o (IF i < Len(s) THEN "," \o JoinArr(s, i + 1) ELSE "")

\* Number(v) for the texts the model uses: an integer, or NaN.
TextToNum(s) ==
  CASE s = "" -> Num(0) [] s = "0" -> Num(0) [] s = "1" -> Num(1) [] s = "2" -> Num(2)
    [] s = "3" -> Num(3) [] OTHER -> NaN

\* Number(v) for the values the model uses: Num(n), or NaN.
ToNum(v) ==
  CASE Tag(v) = "num" -> v
    [] Tag(v) = "bool" -> (IF v[2] THEN Num(1) ELSE Num(0))
    [] Tag(v) = "null" -> Num(0)
    [] Tag(v) = "date" -> Num(v[2] * 1000)
    [] Tag(v) = "str" -> TextToNum(v[2])
    [] Tag(v) = "arr" -> TextToNum(ToStr(v))
    [] OTHER -> NaN

(***************************************************************************)
(* Paths.                                                                  *)
(***************************************************************************)
\* toPath(path).split('.') for the paths the model uses.
Segments(path) ==
  CASE path = "meta.k" -> <<"meta", "k">>
    [] path = "$meta.k" -> <<"meta", "k">>
    [] path = "$_id" -> <<"_id">>
    [] path = "$tag" -> <<"tag">>
    [] path = "$ref" -> <<"ref">>
    [] path = "$score" -> <<"score">>
    [] path = "$v" -> <<"v">>
    [] path = "$fromUserId" -> <<"fromUserId">>
    [] path = "$toUserId" -> <<"toUserId">>
    [] OTHER -> <<path>>

RECURSIVE WalkPath(_, _, _)
WalkPath(current, segments, i) ==
  IF i > Len(segments) THEN current
  ELSE IF Tag(current) \in {"null", "undef"} THEN Undef
  ELSE WalkPath(IF Tag(current) = "obj" THEN Field(current[2], segments[i]) ELSE Undef,
                segments, i + 1)

getValue(obj, path) == WalkPath(Obj(obj), Segments(path), 1)

RECURSIVE SetPath(_, _, _, _)
\* setValue on the object obj along segments from position i.
SetPath(obj, segments, i, value) ==
  IF i = Len(segments) THEN Spread(obj, segments[i] :> value)
  ELSE LET key == segments[i]
           cur == Field(obj, key)
           child == IF Tag(cur) \in {"obj"} THEN cur[2] ELSE EmptyDoc
       IN Spread(obj, key :> Obj(SetPath(child, segments, i + 1, value)))

\* A setValue that builds the addressed object anew, without its other fields.
setValue_DropsSiblings(obj, path, value) ==
  Spread(obj, Segments(path)[1] :>
                (IF Len(Segments(path)) = 1 THEN value
                 ELSE Obj(SetPath(EmptyDoc, Segments(path), 2, value))))

setValue(obj, path, value) == SetPath(obj, Segments(path), 1, value)

(***************************************************************************)
(* The codec.                                                              *)
(***************************************************************************)
RECURSIVE normalizeData(_)
normalizeData(value) ==
  CASE Tag(value) = "date" -> Iso(value[2])
    [] Tag(value) = "arr" -> Arr([i \in DOMAIN value[2] |-> normalizeData(value[2][i])])
    [] Tag(value) = "obj" -> Obj([k \in DOMAIN value[2] |-> normalizeData(value[2][k])])
    [] OTHER -> value

\* normalizeData of a document, field by field.
NormalizeDoc(doc) == [k \in DOMAIN doc |-> normalizeData(doc[k])]

(***************************************************************************)
(* The filter evaluator.                                                   *)
(***************************************************************************)
\* new RegExp(pattern, options).test(text) for the patterns the model uses.
RegexTest(pattern, options, text) ==
  CASE pattern = "" -> TRUE
    [] pattern = "^a$" -> (text = "a" \/ (options = "i" /\ text = "A"))
    [] pattern = "^b$" -> (text = "b" \/ (options = "i" /\ text = "B"))
    [] OTHER -> FALSE

InList(list, text) == \E i \in DOMAIN list : ToStr(list[i]) = text

\* An evaluator for which an operator object it does not know matches.
MatchesKey_UnknownMatches(doc, key, expected) ==
  LET actual == getValue(doc, key) IN
  IF Tag(expected) \in {"obj", "date"}
  THEN IF Tag(expected) = "date" THEN FALSE
       ELSE IF "$in" \in DOMAIN expected[2]
            THEN InList(expected[2]["$in"][2], ToStr(actual))
       ELSE IF "$regex" \in DOMAIN expected[2]
            THEN RegexTest(ToStr(expected[2]["$regex"]),
                           IF "$options" \in DOMAIN expected[2]
                                /\ Tag(expected[2]["$options"]) \notin {"null", "undef"}
                           THEN ToStr(expected[2]["$options"]) ELSE "",
                           IF Tag(actual) \in {"null", "undef"} THEN "" ELSE ToStr(actual))
       ELSE IF "$gt" \in DOMAIN expected[2]
            THEN LET a == ToNum(actual)
                     e == ToNum(expected[2]["$gt"])
                 IN a /= NaN /\ e /= NaN /\ a[2] > e[2]
       ELSE TRUE
  ELSE ToStr(actual) = ToStr(expected)

MatchesKey(doc, key, expected) ==
  LET actual == getValue(doc, key) IN
  IF Tag(expected) \in {"obj", "date"}
  THEN IF Tag(expected) = "date" THEN FALSE
       ELSE IF "$in" \in DOMAIN expected[2]
            THEN InList(expected[2]["$in"][2], ToStr(actual))
       ELSE IF "$regex" \in DOMAIN expected[2]
            THEN RegexTest(ToStr(expected[2]["$regex"]),
                           IF "$options" \in DOMAIN expected[2]
                                /\ Tag(expected[2]["$options"]) \notin {"null", "undef"}
                           THEN ToStr(expected[2]["$options"]) ELSE "",
                           IF Tag(actual) \in {"null", "undef"} THEN "" ELSE ToStr(actual))
       ELSE IF "$gt" \in DOMAIN expected[2]
            THEN LET a == ToNum(actual)
                     e == ToNum(expected[2]["$gt"])
                 IN a /= NaN /\ e /= NaN /\ a[2] > e[2]
       ELSE FALSE
  ELSE ToStr(actual) = ToStr(expected)

matchesFilter(doc, filter) == \A key \in DOMAIN filter : MatchesKey(doc, key, filter[key])

(***************************************************************************)
(* The models of the application that the layer serves here, with the      *)
(* defaults and populate maps they are created with.                       *)
(***************************************************************************)
Models == {"UserBatch", "Batch"}

defaults(m) ==
  IF m = "UserBatch" THEN [isPrimary |-> Bool(TRUE)]
  ELSE IF m = "Like" THEN [isSuperlike |-> Bool(FALSE)]
  ELSE [memberCount |-> Num(0), isFrozen |-> Bool(FALSE)]

\* populates[field].model of model m, "" when the field has no mapping.
populates(m, field) ==
  IF m = "UserBatch" /\ field = "batchId" THEN "Batch" ELSE ""

\* The registry of modelRegistry.js: every model is registered by createModel.
getModel(name) == IF name \in Models THEN name ELSE ""

(***************************************************************************)
(* The table.  An item is stored under its key (pk, sk).                   *)
(***************************************************************************)
KeyOf(pk, sk) == <<pk, sk>>

\* The key findById asks for: pk = sk = `${name}#${id}`.
ModelKey(m, id) == KeyOf(m \o "#" \o ToStr(id), m \o "#" \o ToStr(id))

\* A _put whose data wins over the model name it sets.
PutItem_DataWins(m, data) ==
  Spread([model |-> Str(m)],
         Spread(NormalizeDoc(data),
                [pk |-> Str(m \o "#" \o ToStr(Field(data, "_id"))),
                 sk |-> Str(m \o "#" \o ToStr(Field(data, "_id")))]))

\* The item _put builds from data.
PutItem(m, data) ==
  Spread(NormalizeDoc(data),
         [model |-> Str(m),
          pk |-> Str(m \o "#" \o ToStr(Field(data, "_id"))),
          sk |-> Str(m \o "#" \o ToStr(Field(data, "_id")))])

\* A put that stores the item under its id alone.
PutInto_ById(tbl, item) ==
  Spread(tbl, KeyOf(ToStr(Field(item, "_id")), ToStr(Field(item, "_id"))) :> item)

\* A put that merges the item into the one stored under its key.
PutInto_Merge(tbl, item) ==
  LET k == KeyOf(ToStr(item["pk"]), ToStr(item["sk"]))
  IN Spread(tbl, k :> (IF k \in DOMAIN tbl THEN Spread(tbl[k], item) ELSE item))

\* PutCommand: the item replaces whatever is stored under its key.
PutInto(tbl, item) == Spread(tbl, KeyOf(ToStr(item["pk"]), ToStr(item["sk"])) :> item)

_put(tbl, m, data) == PutInto(tbl, PutItem(m, data))

\* DeleteCommand of one key.
DeleteKey(tbl, key) == [k \in (DOMAIN tbl) \ {key} |-> tbl[k]]

\* A scan without the filter expression: the keys of every model.
ScanKeys_AnyModel(tbl, m) == DOMAIN tbl

\* The keys a scan of model m returns: FilterExpression #model = :model.
ScanKeys(tbl, m) == {k \in DOMAIN tbl : Field(tbl[k], "model") = Str(m)}

\* All orders in which the backend may return the keys of a set.
Orders(S) ==
  {f \in [1..Cardinality(S) -> S] : \A i, j \in 1..Cardinality(S) : f[i] = f[j] => i = j}

\* The possible results of _scanAll: the items of model m, in a backend order.
ScanAll(tbl, m) == {[i \in DOMAIN o |-> tbl[o[i]]] : o \in Orders(ScanKeys(tbl, m))}

RECURSIVE FilterSeq(_, _, _)
\* rows.filter(entry => matchesFilter(entry, filter)) from position i.
FilterSeq(rows, filter, i) ==
  IF i > Len(rows) THEN <<>>
  ELSE (IF matchesFilter(rows[i], filter) THEN <<rows[i]>> ELSE <<>>)
       \o FilterSeq(rows, filter, i + 1)

(***************************************************************************)
(* Identifiers and time.                                                   *)
(***************************************************************************)
\* A generator that hands out one value again and again.
Uuid_Repeats(n) == Str("u1")

\* The n-th value of crypto.randomUUID: no two calls return the same value.
Uuid(n) == Str("u" \o Digit(n))

\* new Date().toISOString() at the instant t.
NowIso(t) == Iso(t)

(***************************************************************************)
(* Hydrated documents and the query builder.                               *)
(***************************************************************************)
\* No hydrated document is held.
NoDoc == [has |-> FALSE, m |-> "", doc |-> EmptyDoc]

\* toDoc(model, raw): a copy of raw bound to its model; null stays null.
toDoc(m, raw) == IF raw = Null THEN NoDoc ELSE [has |-> TRUE, m |-> m, doc |-> raw[2]]

\* !v of JavaScript.
Falsy(v) ==
  \/ Tag(v) \in {"undef", "null"}
  \/ v = Str("")
  \/ v = Num(0)
  \/ v = Bool(FALSE)

\* A single mode that hands out the last row instead of the first.
First_Last(rows) == IF Len(rows) = 0 THEN Null ELSE Obj(rows[Len(rows)])

\* result[0] ?? null
First(rows) == IF Len(rows) = 0 THEN Null ELSE Obj(rows[1])

\* The loader of findById: a point get, kept only when the item is of model m.
LoadById(tbl, m, id) ==
  IF ModelKey(m, id) \in DOMAIN tbl /\ Field(tbl[ModelKey(m, id)], "model") = Str(m)
  THEN <<tbl[ModelKey(m, id)]>>
  ELSE <<>>

\* QueryBuilder._populate on one row.
PopulateRow(tbl, m, doc, field) ==
  IF field = "" THEN doc
  ELSE IF populates(m, field) = "" THEN doc
  ELSE IF getModel(populates(m, field)) = "" THEN doc
  ELSE IF Falsy(Field(doc, field)) THEN doc
  ELSE Spread(doc, field :> First(LoadById(tbl, getModel(populates(m, field)), Field(doc, field))))

_populate(tbl, m, docs, field) == [i \in DOMAIN docs |-> PopulateRow(tbl, m, docs[i], field)]

\* QueryBuilder.exec in single mode: the value the caller receives (lean form).
ExecSingle(tbl, m, loaded, field) == First(_populate(tbl, m, loaded, field))

(***************************************************************************)
(* Sorting and limiting.  A sort specification is the sequence of its      *)
(* entries <<key, direction>>, in the order Object.entries yields them.    *)
(***************************************************************************)
\* applyProjection(doc, projection): a copy of the document, or its _id and the
\* fields the projection names with a truthy value.
applyProjection(doc, projection) ==
  IF Falsy(projection) THEN doc
  ELSE [k \in {"_id"} \cup {f \in DOMAIN projection[2] : ~Falsy(projection[2][f])} |->
          Field(doc, k)]

\* The rank of a text among the texts the model sorts, in code-unit order.
TextRank(s) ==
  CASE s = "Ann" -> 1 [] s = "Bo" -> 2 [] s = "a" -> 3 [] s = "b" -> 4 [] OTHER -> 0

\* av === bv: primitives of one type and value; objects are equal only to themselves.
StrictEq(a, b) ==
  IF Tag(a) \in {"obj", "arr", "date", "nan"} \/ Tag(b) \in {"obj", "arr", "date", "nan"} THEN FALSE
  ELSE IF Tag(a) \in {"str", "iso"} /\ Tag(b) \in {"str", "iso"} THEN ToStr(a) = ToStr(b)
  ELSE a = b

\* av < bv: two texts compare as texts (two toISOString() texts in the order of
\* their instants), anything else as numbers (NaN compares false).
Less(a, b) ==
  IF Tag(a) = "iso" /\ Tag(b) = "iso" THEN a[2] < b[2]
  ELSE IF Tag(a) \in {"str", "iso"} /\ Tag(b) \in {"str", "iso"}
  THEN TextRank(ToStr(a)) < TextRank(ToStr(b))
  ELSE ToNum(a) /= NaN /\ ToNum(b) /= NaN /\ ToNum(a)[2] < ToNum(b)[2]

\* A comparator that treats a missing value like any other under direction -1.
RECURSIVE MissingFollowsDirection(_, _, _, _)
MissingFollowsDirection(a, b, sort, i) ==
  IF i > Len(sort) THEN 0
  ELSE LET av == getValue(a, sort[i][1])
           bv == getValue(b, sort[i][1])
           direction == sort[i][2]
       IN IF StrictEq(av, bv) THEN MissingFollowsDirection(a, b, sort, i + 1)
          ELSE IF Tag(av) \in {"null", "undef"} THEN (IF direction < 0 THEN -1 ELSE 1)
          ELSE IF Tag(bv) \in {"null", "undef"} THEN (IF direction < 0 THEN 1 ELSE -1)
          ELSE IF Less(av, bv) THEN (IF direction < 0 THEN 1 ELSE -1)
          ELSE IF Less(bv, av) THEN (IF direction < 0 THEN -1 ELSE 1)
          ELSE MissingFollowsDirection(a, b, sort, i + 1)

\* A comparator that ignores the direction of its keys.
RECURSIVE AlwaysAscending(_, _, _, _)
AlwaysAscending(a, b, sort, i) ==
  IF i > Len(sort) THEN 0
  ELSE LET av == getValue(a, sort[i][1])
           bv == getValue(b, sort[i][1])
       IN IF StrictEq(av, bv) THEN AlwaysAscending(a, b, sort, i + 1)
          ELSE IF Tag(av) \in {"null", "undef"} THEN 1
          ELSE IF Tag(bv) \in {"null", "undef"} THEN -1
          ELSE IF Less(av, bv) THEN -1
          ELSE IF Less(bv, av) THEN 1
          ELSE AlwaysAscending(a, b, sort, i + 1)

RECURSIVE CompareFrom(_, _, _, _)
\* The loop of compareWithSort from the i-th entry of sort.
CompareFrom(a, b, sort, i) ==
  IF i > Len(sort) THEN 0
  ELSE LET av == getValue(a, sort[i][1])
           bv == getValue(b, sort[i][1])
           direction == sort[i][2]
       IN IF StrictEq(av, bv) THEN CompareFrom(a, b, sort, i + 1)
          ELSE IF Tag(av) \in {"null", "undef"} THEN 1
          ELSE IF Tag(bv) \in {"null", "undef"} THEN -1
          ELSE IF Less(av, bv) THEN (IF direction < 0 THEN 1 ELSE -1)
          ELSE IF Less(bv, av) THEN (IF direction < 0 THEN -1 ELSE 1)
          ELSE CompareFrom(a, b, sort, i + 1)

compareWithSort(a, b, sort) == CompareFrom(a, b, sort, 1)

\* The results Array.prototype.sort may give with compareWithSort: the sort is
\* stable, so rows the comparator calls equal keep their order; a row the
\* comparator puts after another, and not also before it, comes after it; where
\* the comparator contradicts itself (a null against an absent value, each
\* reported greater than the other) the order is the engine's choice.
SortOutcomes(rows, sort) ==
  {[i \in DOMAIN rows |-> rows[q[i]]] :
     q \in {o \in Orders(DOMAIN rows) :
              \A i, j \in DOMAIN rows :
                i < j => LET c == compareWithSort(rows[o[i]], rows[o[j]], sort)
                             d == compareWithSort(rows[o[j]], rows[o[i]], sort)
                         IN /\ ~(c > 0 /\ d < 0)
                            /\ (c = 0 /\ d = 0) => o[i] < o[j]}}

\* result.slice(0, k) when the limit is a number; the rows as they are otherwise.
Slice(rows, limit) ==
  IF Tag(limit) /= "num" THEN rows
  ELSE IF limit[2] < 0 THEN SubSeq(rows, 1, Len(rows) + limit[2])
  ELSE SubSeq(rows, 1, IF limit[2] < Len(rows) THEN limit[2] ELSE Len(rows))

(***************************************************************************)
(* The aggregation executor.  A pipeline is a sequence of stages, a stage  *)
(* an object with one field named after its kind.                          *)
(***************************************************************************)
RECURSIVE evaluateGroupIdExpression(_, _)
evaluateGroupIdExpression(doc, expr) ==
  IF Tag(expr) \in {"str", "iso"} THEN getValue(doc, ToStr(expr))
  ELSE IF Tag(expr) = "obj"
  THEN Obj([k \in DOMAIN expr[2] |-> evaluateGroupIdExpression(doc, expr[2][k])])
  ELSE expr

RECURSIVE Json(_)
RECURSIVE JsonFields(_, _)
RECURSIVE JsonItems(_, _)
\* JSON.stringify(v); the text "undefined" stands for the undefined it returns
\* for undefined (no text JSON.stringify returns is that text).
Json(v) ==
  CASE Tag(v) \in {"str", "iso"} -> "\"" \o ToStr(v) \o "\""
    [] Tag(v) = "date" -> "\"" \o IsoText(v[2]) \o "\""
    [] Tag(v) = "num" -> Digit(v[2])
    [] Tag(v) = "bool" -> ToStr(v)
    [] Tag(v) \in {"null", "nan"} -> "null"
    [] Tag(v) = "undef" -> "undefined"
    [] Tag(v) = "obj" -> "{" \o JsonFields(v[2], {k \in DOMAIN v[2] : Tag(v[2][k]) /= "undef"}) \o "}"
    [] Tag(v) = "arr" -> "[" \o JsonItems(v[2], 1) \o "]"

\* The members of an object, those with an undefined value left out.
JsonFields(obj, keys) ==
  IF keys = {} THEN ""
  ELSE LET k == CHOOSE x \in keys : TRUE
       IN "\"" \o k \o "\":" \o Json(obj[k])
          \o (IF keys = {k} THEN "" ELSE "," \o JsonFields(obj, keys \ {k}))

\* The elements of an array from position i; an undefined element is written null.
JsonItems(s, i) ==
  IF i > Len(s) THEN ""
  ELSE (IF Tag(s[i]) = "undef" THEN "null" ELSE Json(s[i]))
       \o (IF i < Len(s) THEN "," \o JsonItems(s, i + 1) ELSE "")

\* a + b of two numbers.
NumAdd(a, b) == IF a = NaN \/ b = NaN THEN NaN ELSE Num(a[2] + b[2])

\* A sum accumulator that adds the field's value even when asked to count.
SumValue_NeverCounts(row, op) ==
  LET v == getValue(row, ToStr(op["$sum"])) IN
    ToNum(IF Tag(v) \in {"null", "undef"} THEN Num(0) ELSE v)

\* op.$sum === 1 ? 1 : Number(getValue(row, op.$sum) ?? 0)
SumValue(row, op) ==
  IF op["$sum"] = Num(1) THEN Num(1)
  ELSE LET v == getValue(row, ToStr(op["$sum"])) IN
         ToNum(IF Tag(v) \in {"null", "undef"} THEN Num(0) ELSE v)

\* What one row adds to its group's entry under accumulator op, the entry's field
\* holding prev (undefined at first): the $sum branch, then the $push branch.
Accumulate(prev, row, op) ==
  LET summed == IF "$sum" \in DOMAIN op
                THEN NumAdd(IF Tag(prev) \in {"null", "undef"} THEN Num(0) ELSE prev,
                            SumValue(row, op))
                ELSE prev
  IN IF "$push" \in DOMAIN op
     THEN Arr((IF Tag(summed) = "arr" THEN summed[2] ELSE <<>>)
              \o <<getValue(row, ToStr(op["$push"]))>>)
     ELSE summed

\* The accumulator fields of a $group specification.
AccFields(group) == (DOMAIN group) \ {"_id"}

\* The entry of its group after row is accumulated into it.
GroupEntry(entry, row, group) ==
  [f \in (DOMAIN entry) \cup {g \in AccFields(group) :
                               {"$sum", "$push"} \cap DOMAIN group[g][2] /= {}} |->
     IF f \in AccFields(group) /\ {"$sum", "$push"} \cap DOMAIN group[f][2] /= {}
     THEN Accumulate(Field(entry, f), row, group[f][2])
     ELSE entry[f]]

RECURSIVE GroupLoop(_, _, _, _)
\* The loop of the $group stage from row i: groups is the sequence of the Map's
\* values, in the order their keys were first seen.
GroupLoop(groups, current, group, i) ==
  IF i > Len(current) THEN groups
  ELSE LET idValue == evaluateGroupIdExpression(current[i], Field(group, "_id"))
           key == Json(idValue)
           has == \E j \in DOMAIN groups : Json(groups[j]["_id"]) = key
           at == IF has THEN CHOOSE j \in DOMAIN groups : Json(groups[j]["_id"]) = key
                 ELSE Len(groups) + 1
           opened == IF has THEN groups ELSE Append(groups, [_id |-> idValue])
       IN GroupLoop([opened EXCEPT ![at] = GroupEntry(opened[at], current[i], group)],
                    current, group, i + 1)

\* A stage that drops every row when its kind is not known.
ApplyStage_UnknownDrops(current, stage) ==
  IF ~Falsy(Field(stage, "$match"))
  THEN {FilterSeq(current, stage["$match"][2], 1)}
  ELSE IF ~Falsy(Field(stage, "$sort")) THEN SortOutcomes(current, stage["$sort"][2])
  ELSE IF ~Falsy(Field(stage, "$group")) THEN {GroupLoop(<<>>, current, stage["$group"][2], 1)}
  ELSE {<<>>}

\* One round of aggregateRows' loop: the row sequences the stage may leave.
ApplyStage(current, stage) ==
  IF ~Falsy(Field(stage, "$match"))
  THEN {FilterSeq(current, stage["$match"][2], 1)}
  ELSE IF ~Falsy(Field(stage, "$sort")) THEN SortOutcomes(current, stage["$sort"][2])
  ELSE IF ~Falsy(Field(stage, "$group")) THEN {GroupLoop(<<>>, current, stage["$group"][2], 1)}
  ELSE {current}

RECURSIVE StagesFrom(_, _, _)
\* aggregateRows' loop from stage i: the row sequences it may return.
StagesFrom(current, pipeline, i) ==
  IF i > Len(pipeline) THEN {current}
  ELSE UNION {StagesFrom(next, pipeline, i + 1) : next \in ApplyStage(current, pipeline[i])}

aggregateRows(rows, pipeline) == StagesFrom(rows, pipeline, 1)

(***************************************************************************)
(* The mutation engine, as functions of the table.                         *)
(***************************************************************************)
\* A create whose defaults win over the payload.
CreateDoc_DefaultsWin(m, payload, uuid, t) ==
  Spread(Spread(Spread([_id |-> uuid], payload), defaults(m)),
         [createdAt |-> NowIso(t), updatedAt |-> NowIso(t)])

\* The document create builds for payload, with id uuid at instant t.
CreateDoc(m, payload, uuid, t) ==
  Spread(Spread(Spread([_id |-> uuid], defaults(m)), payload),
         [createdAt |-> NowIso(t), updatedAt |-> NowIso(t)])

\* save() of a hydrated document at instant t: the document it leaves in memory.
SaveDoc(doc, t) == Spread(doc, [updatedAt |-> NowIso(t)])

RECURSIVE ApplySet(_, _)
\* for (const [key, value] of Object.entries(update.$set)) setValue(row, key, value)
ApplySet(row, set) ==
  IF DOMAIN set = {} THEN row
  ELSE LET key == CHOOSE k \in DOMAIN set : TRUE
       IN ApplySet(setValue(row, key, set[key]), [k \in (DOMAIN set) \ {key} |-> set[k]])

\* A round of updateMany's loop that applies the defaults of the row's model again.
UpdateRow_Redefault(row, update, t) ==
  Spread(Spread(IF "$set" \in DOMAIN update /\ ~Falsy(update["$set"])
                THEN ApplySet(row, update["$set"][2]) ELSE row,
                defaults(ToStr(Field(row, "model")))),
         [updatedAt |-> NowIso(t)])

\* One round of updateMany's loop on a target row.
UpdateRow(row, update, t) ==
  Spread(IF "$set" \in DOMAIN update /\ ~Falsy(update["$set"])
         THEN ApplySet(row, update["$set"][2]) ELSE row,
         [updatedAt |-> NowIso(t)])

RECURSIVE UpdateLoop(_, _, _, _, _, _)
\* updateMany's loop over targets from position i.
UpdateLoop(tbl, m, targets, update, t, i) ==
  IF i > Len(targets) THEN tbl
  ELSE UpdateLoop(_put(tbl, m, UpdateRow(targets[i], update, t)), m, targets, update, t, i + 1)

RECURSIVE DeleteLoop(_, _, _)
\* deleteMany's loop over targets from position i.
DeleteLoop(tbl, targets, i) ==
  IF i > Len(targets) THEN tbl
  ELSE DeleteLoop(DeleteKey(tbl, KeyOf(ToStr(Field(targets[i], "pk")), ToStr(Field(targets[i], "sk")))),
                  targets, i + 1)

\* A deleteOne whose filter names no id.
DeleteOneFilter_All(doc) == EmptyDoc

\* The filter deleteOne hands to deleteMany.
DeleteOneFilter(doc) == [_id |-> Obj("$in" :> Arr(<<Field(doc, "_id")>>))]

(***************************************************************************)
(* The inputs callers hand to the layer.  A run draws its calls from one   *)
(* family of inputs, env, fixed when the run starts.                       *)
(***************************************************************************)
In(list) == Obj("$in" :> Arr(list))

\* Ids a caller names itself.
CallerId == Str("x")
OtherId == Str("y")

\* The ids a caller can name: the ones generated so far and its own.
KnownIds == {Uuid(i) : i \in 1..(nextId - 1)} \cup {CallerId}

Family(models, payloads, patches, filters, fields) ==
  [models |-> models, payloads |-> payloads, patches |-> patches, filters |-> filters,
   fields |-> fields]

\* Plain fields and a temporal value, on one model.
PlainFamily ==
  Family({"UserBatch"},
         {EmptyDoc, [isPrimary |-> Bool(FALSE)], [freezeDate |-> DateV(0)]},
         {[isPrimary |-> Bool(FALSE)]},
         {EmptyDoc, [isPrimary |-> Bool(TRUE)]},
         {""})

\* Literal and operator filters on a field the patch does not name.
FilterFamily ==
  Family({"UserBatch"},
         {EmptyDoc},
         {[isPrimary |-> Bool(FALSE)]},
         {[batchId |-> CallerId], [batchId |-> In(<<CallerId, Uuid(1)>>)]},
         {""})

\* Payloads, patches and filters that name the id, on two models.
IdFamily ==
  Family(Models,
         {EmptyDoc, [_id |-> CallerId]},
         {[_id |-> OtherId]},
         {[_id |-> CallerId]},
         {""})

\* Payloads and patches that name the fields the layer sets itself.
SystemFamily ==
  Family({"UserBatch"},
         {EmptyDoc, [model |-> Str("Batch"), createdAt |-> Iso(MaxClock), pk |-> Str("k")]},
         {[model |-> Str("Batch"), createdAt |-> Iso(MaxClock)],
          [updatedAt |-> Iso(0), sk |-> Str("k")]},
         {EmptyDoc},
         {""})

\* Foreign keys and joins.
JoinFamily ==
  Family(Models,
         {[_id |-> CallerId], [batchId |-> CallerId]},
         {},
         {EmptyDoc},
         {"batchId"})

Families == {PlainFamily, FilterFamily, IdFamily, SystemFamily, JoinFamily}

\* The update objects of updateMany and updateOne.
Updates == {EmptyDoc} \cup {"$set" :> Obj(p) : p \in env.patches}
                      \cup {"$setOnInsert" :> Obj(p) : p \in env.patches}

(***************************************************************************)
(* State.  table is the stored items by key; now the clock; nextId the     *)
(* number of the next generated id; held the hydrated document the caller  *)
(* holds (the result of its latest call that returns one); last the latest *)
(* call, with the arguments of a create or of an upserting call and the id *)
(* of the document it inserted (null when it inserted none).               *)
(***************************************************************************)
Call(op, m, id, filter, patch, upsert) ==
  [op |-> op, m |-> m, id |-> id, filter |-> filter, patch |-> patch, upsert |-> upsert]

\* A call whose arguments are not kept.
Plain(op) == Call(op, "", Null, EmptyDoc, EmptyDoc, FALSE)

Init ==
  /\ table = <<>>
  /\ now = 0
  /\ nextId = 1
  /\ held = NoDoc
  /\ last = Plain("init")
  /\ env \in Families

\* The clock advances.
Tick ==
  /\ now < MaxClock
  /\ now' = now + 1
  /\ UNCHANGED <<table, nextId, held, last, env>>

\* model.create(payload)
Create(m, payload) ==
  /\ nextId <= MaxCreates
  /\ LET doc == CreateDoc(m, payload, Uuid(nextId), now) IN
       /\ table' = _put(table, m, doc)
       /\ held' = toDoc(m, Obj(doc))
       /\ last' = Call("create", m, Field(doc, "_id"), EmptyDoc, payload, FALSE)
  /\ nextId' = nextId + 1
  /\ UNCHANGED <<now, env>>

\* await model.findById(id).populate(field)
FindById(m, id, field) ==
  /\ held' = toDoc(m, ExecSingle(table, m, LoadById(table, m, id), field))
  /\ last' = Plain("findById")
  /\ UNCHANGED <<table, now, nextId, env>>

\* await model.findOne(filter).populate(field)
FindOne(m, filter, field) ==
  /\ \E rows \in ScanAll(table, m) :
       held' = toDoc(m, ExecSingle(table, m, FilterSeq(rows, filter, 1), field))
  /\ last' = Plain("findOne")
  /\ UNCHANGED <<table, now, nextId, env>>

\* The caller assigns fields of the hydrated document it holds.
Assign(patch) ==
  /\ held.has
  /\ held' = [held EXCEPT !.doc = Spread(held.doc, patch)]
  /\ last' = Plain("assign")
  /\ UNCHANGED <<table, now, nextId, env>>

\* doc.save() of the held document
Save ==
  /\ held.has
  /\ table' = _put(table, held.m, SaveDoc(held.doc, now))
  /\ held' = [held EXCEPT !.doc = SaveDoc(held.doc, now)]
  /\ last' = Plain("save")
  /\ UNCHANGED <<now, nextId, env>>

\* model.deleteMany(filter)
DeleteMany(m, filter) ==
  /\ \E rows \in ScanAll(table, m) :
       table' = DeleteLoop(table, FilterSeq(rows, filter, 1), 1)
  /\ last' = Plain("deleteMany")
  /\ UNCHANGED <<now, nextId, held, env>>

\* doc.deleteOne() of the held document
DeleteOne ==
  /\ held.has
  /\ \E rows \in ScanAll(table, held.m) :
       table' = DeleteLoop(table, FilterSeq(rows, DeleteOneFilter(held.doc), 1), 1)
  /\ last' = Plain("deleteOne")
  /\ UNCHANGED <<now, nextId, held, env>>

\* model.updateMany(filter, update)
UpdateMany(m, filter, update) ==
  /\ \E rows \in ScanAll(table, m) :
       table' = UpdateLoop(table, m, FilterSeq(rows, filter, 1), update, now, 1)
  /\ last' = Plain("updateMany")
  /\ UNCHANGED <<now, nextId, held, env>>

\* A findOneAndUpdate whose upsert seeds the new document from the patch alone.
FindOneAndUpdate_PatchOnly(m, filter, update, upsert) ==
  /\ \E rows \in ScanAll(table, m) :
       LET found == First(FilterSeq(rows, filter, 1)) IN
         IF found = Null /\ upsert
         THEN /\ nextId <= MaxCreates
              /\ table' = _put(table, m, CreateDoc(m, update, Uuid(nextId), now))
              /\ held' = toDoc(m, Obj(CreateDoc(m, update, Uuid(nextId), now)))
              /\ last' = Call("findOneAndUpdate", m,
                              Field(CreateDoc(m, update, Uuid(nextId), now), "_id"),
                              filter, update, upsert)
              /\ nextId' = nextId + 1
         ELSE IF found /= Null
         THEN /\ table' = _put(table, m, SaveDoc(Spread(found[2], update), now))
              /\ held' = toDoc(m, Obj(SaveDoc(Spread(found[2], update), now)))
              /\ last' = Call("findOneAndUpdate", m, Null, filter, update, upsert)
              /\ UNCHANGED nextId
         ELSE /\ held' = NoDoc
              /\ last' = Call("findOneAndUpdate", m, Null, filter, update, upsert)
              /\ UNCHANGED <<table, nextId>>
  /\ UNCHANGED <<now, env>>

\* model.findOneAndUpdate(filter, update, {upsert})
FindOneAndUpdate(m, filter, update, upsert) ==
  /\ \E rows \in ScanAll(table, m) :
       LET found == First(FilterSeq(rows, filter, 1)) IN
         IF found = Null /\ upsert
         THEN /\ nextId <= MaxCreates
              /\ table' = _put(table, m, CreateDoc(m, Spread(filter, update), Uuid(nextId), now))
              /\ held' = toDoc(m, Obj(CreateDoc(m, Spread(filter, update), Uuid(nextId), now)))
              /\ last' = Call("findOneAndUpdate", m,
                              Field(CreateDoc(m, Spread(filter, update), Uuid(nextId), now), "_id"),
                              filter, update, upsert)
              /\ nextId' = nextId + 1
         ELSE IF found /= Null
         THEN /\ table' = _put(table, m, SaveDoc(Spread(found[2], update), now))
              /\ held' = toDoc(m, Obj(SaveDoc(Spread(found[2], update), now)))
              /\ last' = Call("findOneAndUpdate", m, Null, filter, update, upsert)
              /\ UNCHANGED nextId
         ELSE /\ held' = NoDoc
              /\ last' = Call("findOneAndUpdate", m, Null, filter, update, upsert)
              /\ UNCHANGED <<table, nextId>>
  /\ UNCHANGED <<now, env>>

\* The payload updateOne creates from when it upserts.
UpsertPayload(filter, update) ==
  Spread(filter, IF "$setOnInsert" \in DOMAIN update /\ Tag(update["$setOnInsert"]) = "obj"
                 THEN update["$setOnInsert"][2] ELSE EmptyDoc)

\* model.updateOne(filter, update, {upsert})
UpdateOne(m, filter, update, upsert) ==
  /\ \E rows \in ScanAll(table, m) :
       LET found == First(FilterSeq(rows, filter, 1)) IN
         IF found = Null /\ upsert
         THEN /\ nextId <= MaxCreates
              /\ table' = _put(table, m, CreateDoc(m, UpsertPayload(filter, update), Uuid(nextId), now))
              /\ held' = toDoc(m, Obj(CreateDoc(m, UpsertPayload(filter, update), Uuid(nextId), now)))
              /\ last' = Call("updateOne", m,
                              Field(CreateDoc(m, UpsertPayload(filter, update), Uuid(nextId), now), "_id"),
                              filter, UpsertPayload(EmptyDoc, update), upsert)
              /\ nextId' = nextId + 1
         ELSE IF found /= Null /\ "$set" \in DOMAIN update /\ ~Falsy(update["$set"])
         THEN /\ table' = _put(table, m, SaveDoc(Spread(found[2], update["$set"][2]), now))
              /\ held' = toDoc(m, Obj(SaveDoc(Spread(found[2], update["$set"][2]), now)))
              /\ last' = Plain("updateOne")
              /\ UNCHANGED nextId
         ELSE /\ held' = toDoc(m, found)
              /\ last' = Plain("updateOne")
              /\ UNCHANGED <<table, nextId>>
  /\ UNCHANGED <<now, env>>

Next ==
  \/ Tick
  \/ \E m \in env.models, payload \in env.payloads : Create(m, payload)
  \/ \E m \in env.models, id \in KnownIds, field \in env.fields : FindById(m, id, field)
  \/ \E m \in env.models, filter \in env.filters, field \in env.fields : FindOne(m, filter, field)
  \/ \E patch \in env.patches : Assign(patch)
  \/ Save
  \/ DeleteOne
  \/ \E m \in env.models, filter \in env.filters : DeleteMany(m, filter)
  \/ \E m \in env.models, filter \in env.filters, update \in Updates : UpdateMany(m, filter, update)
  \/ \E m \in env.models, filter \in env.filters, update \in env.patches, upsert \in BOOLEAN :
       FindOneAndUpdate(m, filter, update, upsert)
  \/ \E m \in env.models, filter \in env.filters, update \in Updates, upsert \in BOOLEAN :
       UpdateOne(m, filter, update, upsert)

Spec == Init /\ [][Next]_vars

(***************************************************************************)
(* Queries.  A second specification resolves queries and aggregations over *)
(* a store that creates have filled: a query builder is created by find    *)
(* and resolved stage by stage, last holding the builder, the rows it      *)
(* loaded, the rows it has now and the lookups its join issued.            *)
(***************************************************************************)
\* The stages of QueryBuilder.exec, in the order its statements run.
Stages == <<"built", "loaded", "sorted", "limited", "joined", "done">>

\* An exec that truncates before it sorts.
NextStage_LimitFirst(pc) ==
  CASE pc = "built" -> "loaded" [] pc = "loaded" -> "limited" [] pc = "limited" -> "sorted"
    [] pc = "sorted" -> "joined" [] pc = "joined" -> "done" [] OTHER -> "none"

\* The stage exec reaches next from pc.
NextStage(pc) ==
  IF \E i \in 1..(Len(Stages) - 1) : Stages[i] = pc
  THEN Stages[(CHOOSE i \in 1..(Len(Stages) - 1) : Stages[i] = pc) + 1]
  ELSE "none"

\* A pipeline stage {kind: value}.
Stage(kind, value) == kind :> value

\* A sort specification {k1: d1, k2: d2, ...} as the object of its entries.
SortBy(entries) == Obj(entries)

\* A query builder in resolution.
Query(pc, m, filter, sort, limit, field, loaded, rows, lookups, result) ==
  [op |-> "find", pc |-> pc, m |-> m, filter |-> filter, sort |-> sort, limit |-> limit,
   field |-> field, loaded |-> loaded, rows |-> rows, lookups |-> lookups, result |-> result]

\* The inputs of a run of queries: the creates that fill the store, and the
\* arguments of the queries, updates and aggregations made on it.
QFamily(creates, models, filters, sorts, limits, fields, updates, pipelines) ==
  [creates |-> creates, models |-> models, filters |-> filters, sorts |-> sorts,
   limits |-> limits, fields |-> fields, updates |-> updates, pipelines |-> pipelines]

\* Documents with a score and a name, some equal in score, one without a score,
\* one with a null score; sorted by one or two keys and limited.
SortFamily ==
  QFamily({"UserBatch"} \X {[score |-> Num(1), name |-> Str("Ann")],
                            [score |-> Num(2), name |-> Str("Bo")],
                            [score |-> Num(1), name |-> Str("Bo")],
                            [score |-> Num(3), name |-> Str("Ann")],
                            [name |-> Str("Ann")],
                            [score |-> Null, name |-> Str("Bo")]},
          {"UserBatch"}, {EmptyDoc},
          {SortBy(<<<<"score", 1>>>>), SortBy(<<<<"score", -1>>>>),
           SortBy(<<<<"score", -1>>, <<"name", 1>>>>)},
          {Null, Num(0), Num(1), Num(2)}, {""}, {}, {})

\* Documents with numeric, null, textual and absent scores and tags, filtered
\* with $gt and $in.
OperatorFamily ==
  QFamily({"UserBatch"} \X {[score |-> Num(1), tag |-> Str("a")],
                            [score |-> Num(2), tag |-> Str("b")],
                            [score |-> Null, tag |-> Str("c")],
                            [score |-> Str("a")],
                            [tag |-> Str("a")]},
          {"UserBatch"},
          {[score |-> Obj("$gt" :> Num(1))], [score |-> Obj("$gt" :> Num(-1))],
           [tag |-> In(<<Str("a"), Str("b")>>)]},
          {Null}, {Null}, {""}, {}, {})

\* Documents on which the path meta.k resolves, stops at a text, or finds
\* nothing, filtered on that path with every form of filter value.
PathFamily ==
  QFamily({"UserBatch"} \X {[meta |-> Obj([k |-> Str("a")])],
                            [meta |-> Str("a")],
                            [tag |-> Str("a")]},
          {"UserBatch"},
          {"meta.k" :> Str("a"), "meta.k" :> In(<<Str("a")>>),
           "meta.k" :> Obj("$regex" :> Str("^a$")), "meta.k" :> Obj("$regex" :> Str("")),
           "meta.k" :> Obj("$gt" :> Num(0))},
          {Null}, {Null}, {""}, {}, {})

\* Filters with an operator object the evaluator does not know, alone and
\* beside a key that matches, next to filters it knows; used by find,
\* updateMany and deleteMany.
UnsupportedFamily ==
  QFamily({"UserBatch"} \X {[score |-> Num(1), tag |-> Str("a")],
                            [score |-> Num(2), tag |-> Str("a")],
                            [score |-> Num(2), tag |-> Str("b")]},
          {"UserBatch"},
          {[score |-> Obj("$lt" :> Num(2))], [score |-> Obj(EmptyDoc)],
           [tag |-> Str("a"), score |-> Obj("$gte" :> Num(1))],
           [tag |-> Str("a"), score |-> Obj("$gt" :> Num(1))]},
          {Null}, {Null}, {""}, {"$set" :> Obj([tag |-> Str("b")])}, {})

\* Documents with a foreign key whose target is stored or not, and documents
\* without one, sorted, limited and joined.
JoinQueryFamily ==
  QFamily({<<"Batch", [_id |-> CallerId]>>,
           <<"UserBatch", [batchId |-> CallerId, score |-> Num(1)]>>,
           <<"UserBatch", [batchId |-> OtherId, score |-> Num(2)]>>,
           <<"UserBatch", [score |-> Num(3)]>>},
          {"UserBatch"}, {EmptyDoc},
          {Null, SortBy(<<<<"score", -1>>>>)},
          {Null, Num(1), Num(2)}, {"batchId"}, {}, {})

\* Rows with a number v and a tag, grouped, counted, sorted and matched, with
\* stages the executor does not know among the stages.
AggregateFamily ==
  QFamily({"UserBatch"} \X {[v |-> Num(1), tag |-> Str("a")],
                            [v |-> Num(2), tag |-> Str("a")],
                            [v |-> Num(3), tag |-> Str("b")],
                            [tag |-> Str("b")],
                            [v |-> Null]},
          {"UserBatch"}, {}, {}, {}, {}, {},
          {<<Stage("$group", Obj([_id |-> Null, total |-> Obj("$sum" :> Str("$v"))]))>>,
           <<Stage("$group", Obj([_id |-> Str("$tag"), n |-> Obj("$sum" :> Num(1)),
                                  total |-> Obj("$sum" :> Str("v"))]))>>,
           <<Stage("$group", Obj([_id |-> Obj([t |-> Str("$tag")]), n |-> Obj("$sum" :> Num(1))]))>>,
           <<Stage("$limit", Num(1)),
             Stage("$group", Obj([_id |-> Str("$tag"), n |-> Obj("$sum" :> Num(1))]))>>,
           <<Stage("$project", Obj([v |-> Num(1)]))>>,
           <<Stage("$sort", SortBy(<<<<"v", -1>>>>))>>,
           <<Stage("$match", Obj([tag |-> Str("a")])), Stage("$skip", Num(1)),
             Stage("$sort", SortBy(<<<<"v", 1>>, <<"tag", 1>>>>))>>})

QFamilies ==
  {SortFamily, OperatorFamily, PathFamily, UnsupportedFamily, JoinQueryFamily, AggregateFamily}

\* The sequences of up to MaxDocs creates drawn from S.
CreateSeqs(S) == UNION {[1..n -> S] : n \in 0..MaxDocs}

RECURSIVE StoreOf(_, _, _)
\* The store after the creates of a sequence, from the i-th on, at instant 0.
StoreOf(tbl, creates, i) ==
  IF i > Len(creates) THEN tbl
  ELSE StoreOf(_put(tbl, creates[i][1], CreateDoc(creates[i][1], creates[i][2], Uuid(i), 0)),
               creates, i + 1)

\* The lookups _populate issues for docs: one findById per row whose field holds
\* a truthy value, when the model maps the field to a registered model.
Lookups(m, docs, field) ==
  IF field = "" \/ populates(m, field) = "" \/ getModel(populates(m, field)) = "" THEN 0
  ELSE Cardinality({i \in DOMAIN docs : ~Falsy(Field(docs[i], field))})

QInit ==
  /\ env \in QFamilies
  /\ \E creates \in CreateSeqs(env.creates) :
       /\ table = StoreOf(<<>>, creates, 1)
       /\ nextId = Len(creates) + 1
  /\ now = MaxClock
  /\ held = NoDoc
  /\ last = Plain("init")

\* model.find(filter).sort(sort).limit(limit).populate(field): the builder, which
\* has touched nothing yet.
Find(m, filter, sort, limit, field) ==
  /\ last' = Query("built", m, filter, sort, limit, field, <<>>, <<>>, 0, <<>>)
  /\ UNCHANGED <<table, now, nextId, held, env>>

\* The operations that return a query builder.
Builders == {"find", "findOne", "findById"}

\* The caller is not awaiting a query: it has built none, or its query resolved.
Awaited == IF last.op \in Builders THEN last.pc = "done" ELSE TRUE

\* await model.findOne(filter).sort(sort).limit(limit).populate(field): a builder
\* in single mode, built when the caller awaits no other query.
FindOneQuery(m, filter, sort, limit, field) ==
  /\ Awaited
  /\ last' = [Query("built", m, filter, sort, limit, field, <<>>, <<>>, 0, NoDoc)
                EXCEPT !.op = "findOne"]
  /\ UNCHANGED <<table, now, nextId, held, env>>

\* The ids a caller asks findById for: a generated one and its own.
QueryIds == {Uuid(1), CallerId}

\* await model.findById(id).sort(sort).limit(limit).populate(field): a builder in
\* single mode whose loader is a point get of the id (kept in the filter's place).
FindByIdQuery(m, id, sort, limit, field) ==
  /\ Awaited
  /\ last' = [Query("built", m, [_id |-> id], sort, limit, field, <<>>, <<>>, 0, NoDoc)
                EXCEPT !.op = "findById"]
  /\ UNCHANGED <<table, now, nextId, held, env>>

\* The stage of exec that runs next is stage.
Resolving(stage) == last.op \in Builders /\ NextStage(last.pc) = stage

\* let result = await this.loader()
ExecLoad ==
  /\ Resolving("loaded")
  /\ IF last.op = "findById"
     THEN LET loaded == LoadById(table, last.m, last.filter["_id"])
          IN last' = [last EXCEPT !.pc = "loaded", !.loaded = loaded, !.rows = loaded]
     ELSE \E rows \in ScanAll(table, last.m) :
            LET found == FilterSeq(rows, last.filter, 1)
                loaded == IF last.op = "find"
                          THEN [i \in DOMAIN found |-> applyProjection(found[i], Null)]
                          ELSE found
            IN last' = [last EXCEPT !.pc = "loaded", !.loaded = loaded, !.rows = loaded]
  /\ UNCHANGED <<table, now, nextId, held, env>>

\* if (this.sortValue) result = [...result].sort(compareWithSort)
ExecSort ==
  /\ Resolving("sorted")
  /\ \E sorted \in (IF Falsy(last.sort) THEN {last.rows} ELSE SortOutcomes(last.rows, last.sort[2])) :
       last' = [last EXCEPT !.pc = "sorted", !.rows = sorted]
  /\ UNCHANGED <<table, now, nextId, held, env>>

\* if (typeof this.limitValue === 'number') result = result.slice(0, this.limitValue)
ExecLimit ==
  /\ Resolving("limited")
  /\ last' = [last EXCEPT !.pc = "limited", !.rows = Slice(last.rows, last.limit)]
  /\ UNCHANGED <<table, now, nextId, held, env>>

\* result = await this._populate(result)
ExecPopulate ==
  /\ Resolving("joined")
  /\ last' = [last EXCEPT !.pc = "joined",
                          !.rows = _populate(table, last.m, last.rows, last.field),
                          !.lookups = last.lookups + Lookups(last.m, last.rows, last.field)]
  /\ UNCHANGED <<table, now, nextId, held, env>>

\* if (this.single) return toDoc(this.model, result[0] ?? null)
\* return result.map((entry) => toDoc(this.model, entry))
ExecHydrate ==
  /\ Resolving("done")
  /\ last' = [last EXCEPT !.pc = "done",
                          !.result = IF last.op = "find"
                                     THEN [i \in DOMAIN last.rows |-> toDoc(last.m, Obj(last.rows[i]))]
                                     ELSE toDoc(last.m, First(last.rows))]
  /\ UNCHANGED <<table, now, nextId, held, env>>

\* model.aggregate(pipeline)
Aggregate(m, pipeline) ==
  /\ \E rows \in ScanAll(table, m) : \E out \in aggregateRows(rows, pipeline) :
       last' = [op |-> "aggregate", m |-> m, pipeline |-> pipeline, loaded |-> rows, rows |-> out]
  /\ UNCHANGED <<table, now, nextId, held, env>>

QNext ==
  \/ \E m \in env.models, filter \in env.filters, sort \in env.sorts, limit \in env.limits,
        field \in env.fields : Find(m, filter, sort, limit, field)
  \/ \E m \in env.models, filter \in env.filters, sort \in env.sorts, limit \in env.limits,
        field \in env.fields : FindOneQuery(m, filter, sort, limit, field)
  \/ \E m \in env.models, id \in QueryIds, sort \in env.sorts, limit \in env.limits,
        field \in env.fields : env.filters /= {} /\ FindByIdQuery(m, id, sort, limit, field)
  \/ ExecLoad
  \/ ExecSort
  \/ ExecLimit
  \/ ExecPopulate
  \/ ExecHydrate
  \/ \E m \in env.models, pipeline \in env.pipelines : Aggregate(m, pipeline)
  \/ \E m \in env.models, filter \in env.filters, update \in env.updates :
       UpdateMany(m, filter, update)
  \/ \E m \in env.models, filter \in env.filters : env.updates /= {} /\ DeleteMany(m, filter)

QuerySpec == QInit /\ [][QNext]_vars

(***************************************************************************)
(* Duplicate reactions.  A third specification creates Like documents and  *)
(* runs enforceSingleProfileReaction of services/bootstrapService.js on    *)
(* them, with no other writer while it runs.                               *)
(***************************************************************************)
\* Reactions between users, two payloads for the same pair, one pair reversed, one
\* without a sender.
ReactionFamily ==
  Family({"Like"},
         {[fromUserId |-> Str("a"), toUserId |-> Str("b")],
          [fromUserId |-> Str("a"), toUserId |-> Str("b"), isSuperlike |-> Bool(TRUE)],
          [fromUserId |-> Str("b"), toUserId |-> Str("a")],
          [toUserId |-> Str("b")]},
         {}, {}, {""})

\* A pipeline that groups before it sorts.
ReactionPipeline_GroupFirst ==
  <<Stage("$group", Obj([_id |-> Obj([fromUserId |-> Str("$fromUserId"),
                                      toUserId |-> Str("$toUserId")]),
                         ids |-> Obj("$push" :> Str("$_id")),
                         count |-> Obj("$sum" :> Num(1))])),
    Stage("$sort", SortBy(<<<<"createdAt", -1>>>>)),
    Stage("$match", Obj([count |-> Obj("$gt" :> Num(1))]))>>

\* The pipeline enforceSingleProfileReaction hands to Like.aggregate.
ReactionPipeline ==
  <<Stage("$sort", SortBy(<<<<"createdAt", -1>>>>)),
    Stage("$group", Obj([_id |-> Obj([fromUserId |-> Str("$fromUserId"),
                                      toUserId |-> Str("$toUserId")]),
                         ids |-> Obj("$push" :> Str("$_id")),
                         count |-> Obj("$sum" :> Num(1))])),
    Stage("$match", Obj([count |-> Obj("$gt" :> Num(1))]))>>

\* const [, ...staleIds] = group.ids
StaleIds(group) == IF Len(group["ids"][2]) = 0 THEN <<>> ELSE Tail(group["ids"][2])

RECURSIVE EnforceLoop(_, _, _, _)
\* The loop of enforceSingleProfileReaction over the groups from the i-th on, with
\* deletedCount so far: the pairs <<table, deletedCount>> it may end with.
EnforceLoop(tbl, groups, i, deletedCount) ==
  IF i > Len(groups) THEN {<<tbl, deletedCount>>}
  ELSE IF Len(StaleIds(groups[i])) = 0 THEN EnforceLoop(tbl, groups, i + 1, deletedCount)
  ELSE UNION {LET targets == FilterSeq(rows, [_id |-> In(StaleIds(groups[i]))], 1)
              IN EnforceLoop(DeleteLoop(tbl, targets, 1), groups, i + 1,
                             deletedCount + Len(targets)) :
              rows \in ScanAll(tbl, "Like")}

RInit ==
  /\ table = <<>>
  /\ now = 0
  /\ nextId = 1
  /\ held = NoDoc
  /\ last = Plain("init")
  /\ env = ReactionFamily

\* The clock advances between two creates.
ClockTick ==
  /\ now < MaxLikes - 1
  /\ now' = now + 1
  /\ UNCHANGED <<table, nextId, held, last, env>>

\* Like.create(payload)
CreateLike(payload) ==
  /\ nextId <= MaxLikes
  /\ LET doc == CreateDoc("Like", payload, Uuid(nextId), now) IN
       /\ table' = _put(table, "Like", doc)
       /\ held' = toDoc("Like", Obj(doc))
       /\ last' = Call("create", "Like", Field(doc, "_id"), EmptyDoc, payload, FALSE)
  /\ nextId' = nextId + 1
  /\ UNCHANGED <<now, env>>

\* enforceSingleProfileReaction(), run to its end; last keeps the count it returns.
EnforceSingleProfileReaction ==
  /\ \E rows \in ScanAll(table, "Like") :
       \E duplicateGroups \in aggregateRows(rows, ReactionPipeline) :
         \E end \in EnforceLoop(table, duplicateGroups, 1, 0) :
           /\ table' = end[1]
           /\ last' = [op |-> "enforceSingleProfileReaction", deletedCount |-> end[2]]
  /\ UNCHANGED <<now, nextId, held, env>>

RNext ==
  \/ ClockTick
  \/ \E payload \in env.payloads : CreateLike(payload)
  \/ EnforceSingleProfileReaction

ReactionSpec == RInit /\ [][RNext]_vars

(***************************************************************************)
(* Calls in flight.  A fourth specification runs calls of one or two       *)
(* callers storage call by storage call: every await of dynamo.send is a   *)
(* point at which another caller may run or the backend may fail.  held    *)
(* maps each caller to the call it has in flight, last names the latest    *)
(* storage call.                                                           *)
(***************************************************************************)
\* A call of the layer with its arguments.  The call "save" is a caller's
\* docs = await model.find(filter, projection); Object.assign(docs[0], update);
\* await docs[0].save().
CallOf(op, m, filter, update, upsert, projection) ==
  [op |-> op, m |-> m, filter |-> filter, update |-> update, upsert |-> upsert,
   projection |-> projection]

NoCall == CallOf("", "", EmptyDoc, EmptyDoc, FALSE, Null)

\* A call in flight: where it stands (pc), the keys its scan has passed and the
\* token of the latest page, the pages and rows read, the kind of write of its
\* loop with the loop's targets and position, the write calls issued, the result.
Run(pc, call, seen, token, pages, rows, kind, targets, i, writes, result) ==
  [pc |-> pc, call |-> call, seen |-> seen, token |-> token, pages |-> pages, rows |-> rows,
   kind |-> kind, targets |-> targets, i |-> i, writes |-> writes, result |-> result]

IdleRun == Run("idle", NoCall, {}, FALSE, <<>>, <<>>, "", <<>>, 1, 0, Undef)

\* The rejection of dynamo.send, as the call's outcome.
Thrown == <<"error">>

\* The inputs of a run of calls: the creates that fill the store, the calls the
\* callers may make, the number of callers, the page lengths of the backend and
\* whether its write calls may fail.
CFamily(creates, calls, procs, pageSizes, failures) ==
  [creates |-> creates, calls |-> calls, procs |-> procs, pageSizes |-> pageSizes,
   failures |-> failures]

\* updateMany with plain and dotted $set paths over documents with and without
\* the intermediate object.
PatchFamily ==
  CFamily({"UserBatch"} \X {[tag |-> Str("a"), meta |-> Obj([k |-> Str("a"), j |-> Str("b")])],
                            [tag |-> Str("a")],
                            [tag |-> Str("b"), meta |-> Str("a")]},
          {CallOf("updateMany", "UserBatch", [tag |-> Str("a")],
                  "$set" :> Obj("meta.k" :> Str("b")), FALSE, Null),
           CallOf("updateMany", "UserBatch", EmptyDoc,
                  "$set" :> Obj([tag |-> Str("c")]), FALSE, Null),
           CallOf("updateMany", "UserBatch", [tag |-> Str("b")], EmptyDoc, FALSE, Null)},
          1, {MaxDocs}, FALSE)

\* updateMany and deleteMany over a backend whose write calls may fail.
FailureFamily ==
  CFamily({"UserBatch"} \X {[tag |-> Str("a")], [tag |-> Str("b")]},
          {CallOf("updateMany", "UserBatch", EmptyDoc,
                  "$set" :> Obj([tag |-> Str("c")]), FALSE, Null),
           CallOf("deleteMany", "UserBatch", EmptyDoc, EmptyDoc, FALSE, Null),
           CallOf("deleteMany", "UserBatch", [tag |-> Str("a")], EmptyDoc, FALSE, Null)},
          1, {MaxDocs}, TRUE)

\* Two callers that update different fields of the same documents, through
\* updateMany and through save.
RaceFamily ==
  CFamily({"UserBatch"} \X {[tag |-> Str("a"), score |-> Num(1)]},
          {CallOf("updateMany", "UserBatch", EmptyDoc,
                  "$set" :> Obj([tag |-> Str("b")]), FALSE, Null),
           CallOf("updateMany", "UserBatch", EmptyDoc,
                  "$set" :> Obj([score |-> Num(2)]), FALSE, Null),
           CallOf("save", "UserBatch", EmptyDoc, [name |-> Str("Bo")], FALSE, Null)},
          2, {MaxDocs}, FALSE)

\* Scans that the backend answers in pages of one or two items.
PageFamily ==
  CFamily({"UserBatch"} \X {[tag |-> Str("a")], [tag |-> Str("b")]},
          {CallOf("countDocuments", "UserBatch", EmptyDoc, EmptyDoc, FALSE, Null),
           CallOf("updateMany", "UserBatch", EmptyDoc,
                  "$set" :> Obj([tag |-> Str("c")]), FALSE, Null),
           CallOf("deleteMany", "UserBatch", [tag |-> Str("a")], EmptyDoc, FALSE, Null)},
          1, {1, 2}, FALSE)

\* Two callers that upsert under the same literal filter.
UpsertFamily ==
  CFamily({"UserBatch"} \X {[batchId |-> OtherId]},
          {CallOf("findOneAndUpdate", "UserBatch", [batchId |-> CallerId],
                  [isPrimary |-> Bool(FALSE)], TRUE, Null),
           CallOf("updateOne", "UserBatch", [batchId |-> CallerId],
                  "$setOnInsert" :> Obj([isPrimary |-> Bool(FALSE)]), TRUE, Null)},
          2, {MaxDocs}, FALSE)

\* A document loaded through find with and without a projection, changed and
\* saved.
ProjectionFamily ==
  CFamily({"UserBatch"} \X {[name |-> Str("Ann"), score |-> Num(1)],
                            [name |-> Str("Ann"), tag |-> Str("a")]},
          {CallOf("save", "UserBatch", EmptyDoc, [name |-> Str("Bo")], FALSE,
                  Obj([name |-> Num(1)])),
           CallOf("save", "UserBatch", EmptyDoc, [name |-> Str("Bo")], FALSE,
                  Obj([name |-> Num(1), score |-> Num(0)])),
           CallOf("save", "UserBatch", EmptyDoc, [name |-> Str("Bo")], FALSE, Null),
           CallOf("save", "UserBatch", [tag |-> Str("a")], EmptyDoc, FALSE,
                  Obj([tag |-> Num(1)]))},
          1, {MaxDocs}, FALSE)

CFamilies ==
  {PatchFamily, FailureFamily, RaceFamily, PageFamily, UpsertFamily, ProjectionFamily}

\* The pages a ScanCommand may answer with after the keys in seen: size items of
\* model m (all that are left if fewer), in an order of the backend's.
PageKeys(tbl, m, seen, size) ==
  LET remaining == ScanKeys(tbl, m) \ seen
      n == IF size < Cardinality(remaining) THEN size ELSE Cardinality(remaining)
  IN UNION {Orders(S) : S \in {T \in SUBSET remaining : Cardinality(T) = n}}

\* response.LastEvaluatedKey is present: items of the model are left after seen.
LastEvaluatedKey(tbl, m, seen) == ScanKeys(tbl, m) \ seen /= {}

\* A scan loop that never asks for a further page.
Continue_Never(token) == FALSE

\* while (lastEvaluatedKey)
Continue(token) == token

\* The call has nothing more to do and returns result.
Finish(run, result) == [run EXCEPT !.pc = "done", !.result = result]

\* The call enters its write calls on targets, or returns result when there are
\* none.
Loop(run, kind, targets, result) ==
  IF Len(targets) = 0 THEN Finish([run EXCEPT !.kind = kind], result)
  ELSE [run EXCEPT !.pc = "write", !.kind = kind, !.targets = targets, !.i = 1]

\* The call inserts: an upsert that found nothing.
Creating(run) ==
  /\ run.call.op \in {"findOneAndUpdate", "updateOne"}
  /\ run.call.upsert
  /\ Len(FilterSeq(run.rows, run.call.filter, 1)) = 0

\* What the call does once _scanAll has returned its rows, up to its next storage
\* call, at instant t and with uuid the next generated id.
Outcome(run, t, uuid) ==
  LET c == run.call
      matched == FilterSeq(run.rows, c.filter, 1)
      found == First(matched)
      docs == [i \in DOMAIN matched |-> applyProjection(matched[i], c.projection)]
  IN CASE c.op = "updateMany" -> Loop(run, "update", matched, Obj([modifiedCount |-> Num(0)]))
       [] c.op = "deleteMany" -> Loop(run, "delete", matched, Obj([deletedCount |-> Num(0)]))
       [] c.op = "countDocuments" -> Finish(run, Num(Len(matched)))
       [] c.op = "findOneAndUpdate" ->
            IF found = Null /\ c.upsert
            THEN Loop(run, "put", <<CreateDoc(c.m, Spread(c.filter, c.update), uuid, t)>>, Null)
            ELSE IF found /= Null
            THEN Loop(run, "put", <<SaveDoc(Spread(found[2], c.update), t)>>, Null)
            ELSE Finish(run, Null)
       [] c.op = "updateOne" ->
            IF found = Null /\ c.upsert
            THEN Loop(run, "put", <<CreateDoc(c.m, UpsertPayload(c.filter, c.update), uuid, t)>>, Null)
            ELSE IF found /= Null /\ "$set" \in DOMAIN c.update /\ ~Falsy(c.update["$set"])
            THEN Loop(run, "put", <<SaveDoc(Spread(found[2], c.update["$set"][2]), t)>>, Null)
            ELSE Finish(run, found)
       [] OTHER ->
            IF Len(docs) = 0 THEN Finish(run, Null)
            ELSE Loop(run, "put", <<SaveDoc(Spread(docs[1], c.update), t)>>, Null)

\* What the call returns after the last write of its loop.
ResultAfter(run) ==
  CASE run.kind = "update" -> Obj([modifiedCount |-> Num(Len(run.targets))])
    [] run.kind = "delete" -> Obj([deletedCount |-> Num(Len(run.targets))])
    [] OTHER -> Obj(run.targets[1])

\* Key: { pk: row.pk, sk: row.sk }
RowKeyOf(row) == KeyOf(ToStr(Field(row, "pk")), ToStr(Field(row, "sk")))

\* The latest storage call: its kind and the caller that issued it.
Sent(op, p) == [op |-> op, p |-> p]

CInit ==
  /\ env \in CFamilies
  /\ \E creates \in CreateSeqs(env.creates) :
       /\ table = StoreOf(<<>>, creates, 1)
       /\ nextId = Len(creates) + 1
  /\ now = MaxClock
  /\ held = [p \in 1..env.procs |-> IdleRun]
  /\ last = Sent("init", 0)

\* Caller p makes a call: its first ScanCommand is on its way.
Start(p, call) ==
  /\ held[p].pc = "idle"
  /\ held' = [held EXCEPT ![p] = [IdleRun EXCEPT !.pc = "scan", !.call = call]]
  /\ last' = Sent("call", p)
  /\ UNCHANGED <<table, now, nextId, env>>

\* A ScanCommand of caller p is answered with a page; _scanAll asks for the next
\* page, or returns and the call runs on to its next storage call.
ScanPage(p) ==
  /\ held[p].pc = "scan"
  /\ \E size \in env.pageSizes :
       \E keys \in PageKeys(table, held[p].call.m, held[p].seen, size) :
         LET items == [i \in DOMAIN keys |-> table[keys[i]]]
             seen == held[p].seen \cup {keys[i] : i \in DOMAIN keys}
             token == LastEvaluatedKey(table, held[p].call.m, seen)
             read == [held[p] EXCEPT !.seen = seen, !.token = token,
                                     !.pages = Append(@, items), !.rows = @ \o items]
         IN IF Continue(token)
            THEN /\ held' = [held EXCEPT ![p] = read]
                 /\ UNCHANGED nextId
            ELSE /\ held' = [held EXCEPT ![p] = Outcome(read, now, Uuid(nextId))]
                 /\ nextId' = IF Creating(read) THEN nextId + 1 ELSE nextId
  /\ last' = Sent("scan", p)
  /\ UNCHANGED <<table, now, env>>

\* A write that applies the update to the item stored at the time of the write
\* instead of the row the caller read.
Write_Fresh(p) ==
  /\ held[p].pc = "write"
  /\ LET run == held[p]
         row == run.targets[run.i]
         stored == IF RowKeyOf(row) \in DOMAIN table THEN table[RowKeyOf(row)] ELSE row
         after == [run EXCEPT !.i = @ + 1, !.writes = @ + 1]
     IN /\ table' = IF run.kind = "delete"
                    THEN DeleteKey(table, RowKeyOf(row))
                    ELSE IF run.kind = "update"
                    THEN _put(table, run.call.m, UpdateRow(stored, run.call.update, now))
                    ELSE _put(table, run.call.m,
                              Spread(stored, [f \in ((DOMAIN run.call.update) \cup {"updatedAt"})
                                                 \cap (DOMAIN row) |-> row[f]]))
        /\ held' = [held EXCEPT ![p] = IF run.i = Len(run.targets)
                                       THEN Finish(after, ResultAfter(run))
                                       ELSE after]
        /\ last' = Sent(IF run.kind = "delete" THEN "delete" ELSE "put", p)
  /\ UNCHANGED <<now, nextId, env>>

\* The write call of caller p's loop for its i-th target succeeds.
Write(p) ==
  /\ held[p].pc = "write"
  /\ LET run == held[p]
         row == run.targets[run.i]
         after == [run EXCEPT !.i = @ + 1, !.writes = @ + 1]
     IN /\ table' = IF run.kind = "delete"
                    THEN DeleteKey(table, KeyOf(ToStr(Field(row, "pk")), ToStr(Field(row, "sk"))))
                    ELSE IF run.kind = "update"
                    THEN _put(table, run.call.m, UpdateRow(row, run.call.update, now))
                    ELSE _put(table, run.call.m, row)
        /\ held' = [held EXCEPT ![p] = IF run.i = Len(run.targets)
                                       THEN Finish(after, ResultAfter(run))
                                       ELSE after]
        /\ last' = Sent(IF run.kind = "delete" THEN "delete" ELSE "put", p)
  /\ UNCHANGED <<now, nextId, env>>

\* A loop that swallows the rejection of a write call and goes on to its next
\* target.
Fail_Skips(p) ==
  /\ env.failures
  /\ held[p].pc = "write"
  /\ held' = [held EXCEPT ![p] = IF @.i = Len(@.targets)
                                 THEN Finish([@ EXCEPT !.i = @ + 1, !.writes = @ + 1], ResultAfter(@))
                                 ELSE [@ EXCEPT !.i = @ + 1, !.writes = @ + 1]]
  /\ last' = Sent("error", p)
  /\ UNCHANGED <<table, now, nextId, env>>

\* The write call of caller p's loop for its i-th target is rejected: the call
\* throws what dynamo.send threw.
Fail(p) ==
  /\ env.failures
  /\ held[p].pc = "write"
  /\ held' = [held EXCEPT ![p] = [@ EXCEPT !.pc = "failed", !.writes = @ + 1, !.result = Thrown]]
  /\ last' = Sent("error", p)
  /\ UNCHANGED <<table, now, nextId, env>>

CNext ==
  \/ \E p \in DOMAIN held, call \in env.calls : Start(p, call)
  \/ \E p \in DOMAIN held : ScanPage(p)
  \/ \E p \in DOMAIN held : Write(p)
  \/ \E p \in DOMAIN held : Fail(p)

CallSpec == CInit /\ [][CNext]_vars

(***************************************************************************)
(* Steps.                                                                  *)
(***************************************************************************)
\* The step is a call of op (every call leaves the clock alone).
Step(op) == last'.op = op /\ now' = now

\* The step inserted a document through create.
Inserted == nextId' = nextId + 1

\* The system fields: the ones create and _put set themselves.
SystemFields == {"createdAt", "updatedAt", "model", "pk", "sk"}

\* The items of model m that match filter.
Matching(tbl, m, filter) == {k \in ScanKeys(tbl, m) : matchesFilter(tbl[k], filter)}

(***************************************************************************)
(* C1.  Round trip of create and findById.                                 *)
(***************************************************************************)
\* The step is findById(id) of the id the preceding create returned, no populate.
RoundTripStep == last.op = "create" /\ Step("findById") /\ FindById(last.m, last.id, "")

\* C1 as stated: create(P) followed at once by findById of the created id returns a
\* document whose fields equal the defaults merged with P (P wins), with
\* createdAt equal to updatedAt.
C1_RoundTripVerbatim ==
  [][RoundTripStep =>
       /\ held'.has
       /\ \A f \in DOMAIN Spread(defaults(last.m), last.patch) :
            Field(held'.doc, f) = Spread(defaults(last.m), last.patch)[f]
       /\ Field(held'.doc, "createdAt") = Field(held'.doc, "updatedAt")]_vars

\* C1 amended: the returned document holds, for every field of the defaults merged
\* with P other than the system fields, the codec's normal form of the merged value
\* (a temporal value comes back as its canonical string); its model is the model's
\* name, and createdAt equals updatedAt, the instant of the create.
C1_RoundTripNormalized ==
  [][RoundTripStep =>
       /\ held'.has
       /\ \A f \in (DOMAIN Spread(defaults(last.m), last.patch)) \ SystemFields :
            Field(held'.doc, f) = normalizeData(Spread(defaults(last.m), last.patch)[f])
       /\ Field(held'.doc, "model") = Str(last.m)
       /\ Field(held'.doc, "createdAt") = Field(held'.doc, "updatedAt")
       /\ Field(held'.doc, "createdAt") = Field(held.doc, "createdAt")]_vars

\* A temporal value was created and read back by id.
C1_Witness ==
  /\ last.op = "findById"
  /\ held.has
  /\ Field(held.doc, "freezeDate") = Iso(0)
  /\ Field(held.doc, "pk") /= Undef

(***************************************************************************)
(* C2.  Upsert twice.                                                      *)
(***************************************************************************)
\* The step is the second of two findOneAndUpdate calls in sequence with the same
\* model, filter and patch, both asking for upsert.
UpsertTwiceStep ==
  /\ last.op = "findOneAndUpdate" /\ last.upsert
  /\ Step("findOneAndUpdate") /\ last'.upsert
  /\ last'.m = last.m /\ last'.filter = last.filter /\ last'.patch = last.patch

\* C2 as stated, in the case most favourable to it (nothing matched before the
\* first call, which therefore inserted, and the patch names no field of the
\* filter): after findOneAndUpdate(filter, patch, {upsert:true}) twice in sequence
\* exactly one document matches the filter, whatever the shape of the filter.
C2_UpsertTwiceOneMatch ==
  [][(UpsertTwiceStep /\ last.id /= Null /\ (DOMAIN last.patch) \cap (DOMAIN last.filter) = {})
       => Cardinality(Matching(table', last.m, last.filter)) = 1]_vars

(***************************************************************************)
(* C3.  Ids of created documents.                                          *)
(***************************************************************************)
\* The step is a create call.
CreateStep == Step("create") /\ Inserted

C4_DeleteOneExact ==
  [][Step("deleteOne") =>
       table' = DeleteKey(table, ModelKey(held.m, Field(held.doc, "_id")))]_vars

\* deleteOne removed a document while another model keeps one with the same id.
C4_Witness ==
  /\ last.op = "deleteOne"
  /\ held.has
  /\ ModelKey(held.m, Field(held.doc, "_id")) \notin DOMAIN table
  /\ \E k \in DOMAIN table :
       Field(table[k], "_id") = Field(held.doc, "_id") /\ Field(table[k], "model") /= Str(held.m)

(***************************************************************************)
(* C5.  Keys.                                                              *)
(***************************************************************************)
\* C5: every stored item has pk = sk = "{model}#{id}" built from its own model and
\* id fields and is stored under that key, so no two stored items have the same
\* model and id.
C5_KeyOfModelAndId ==
  /\ \A k \in DOMAIN table :
       /\ Tag(Field(table[k], "model")) = "str"
       /\ Field(table[k], "pk") = Str(ToStr(table[k]["model"]) \o "#" \o ToStr(Field(table[k], "_id")))
       /\ Field(table[k], "sk") = Field(table[k], "pk")
       /\ k = KeyOf(ToStr(table[k]["pk"]), ToStr(table[k]["sk"]))
  /\ \A k1, k2 \in DOMAIN table :
       (table[k1]["model"] = table[k2]["model"]
          /\ Field(table[k1], "_id") = Field(table[k2], "_id")) => k1 = k2

\* An update wrote a document under an id its patch named, beside a second one.
C5_Witness ==
  /\ last.op = "updateMany"
  /\ Cardinality(ScanKeys(table, "UserBatch")) = 2
  /\ ModelKey("UserBatch", OtherId) \in DOMAIN table

(***************************************************************************)
(* C6.  The id under updates.                                              *)
(***************************************************************************)
\* C6 as stated, for the updates that act on documents they just read from the
\* store (updateMany, and updateOne and findOneAndUpdate when they insert nothing):
\* the update leaves every document stored under the id it had and makes no
\* further stored document appear.
C6_UpdateKeepsIds ==
  [][((Step("updateMany") \/ Step("updateOne") \/ Step("findOneAndUpdate")) /\ ~Inserted) =>
       /\ DOMAIN table' = DOMAIN table
       /\ \A k \in DOMAIN table : Field(table'[k], "_id") = Field(table[k], "_id")]_vars

(***************************************************************************)
(* C7.  Timestamps.                                                        *)
(***************************************************************************)
\* C7 as stated: in every reachable state every stored document has
\* updatedAt >= createdAt.
C7_UpdatedNotBeforeCreated ==
  \A k \in DOMAIN table :
    (Tag(Field(table[k], "createdAt")) = "iso" /\ Tag(Field(table[k], "updatedAt")) = "iso")
      => table[k]["updatedAt"][2] >= table[k]["createdAt"][2]

(***************************************************************************)
(* C8.  Joined values.                                                     *)
(***************************************************************************)
\* A value that is a stored document: what a join puts in place of a foreign key.
IsDocument(v) == Tag(v) = "obj" /\ "model" \in DOMAIN v[2]

\* C8 as stated: no stored item holds, in a field its model joins, the contents of
\* the target document instead of the foreign key.
C8_JoinNeverStored ==
  \A k \in DOMAIN table : \A f \in DOMAIN table[k] :
    (Tag(table[k]["model"]) = "str" /\ populates(ToStr(table[k]["model"]), f) /= "")
      => ~IsDocument(table[k][f])

(***************************************************************************)
(* C9.  Defaults.                                                          *)
(***************************************************************************)
\* The payload of the create the step performed: create's own payload, or the
\* payload an upserting findOneAndUpdate or updateOne built from its arguments.
InsertPayload == IF last'.op = "create" THEN last'.patch ELSE Spread(last'.filter, last'.patch)

\* The patch sets a run's updates can apply: none, or one of the run's patches.
PatchSets == {EmptyDoc} \cup env.patches

\* Every item the step wrote holds, in each default field of its model, the value
\* a patch set of the run names for it or else the value of one document of that
\* model stored before the step, the same patch set and document for all fields.
DefaultsKept ==
  \A k2 \in DOMAIN table' :
    (k2 \notin DOMAIN table \/ table'[k2] /= table[k2]) =>
      LET m == ToStr(Field(table'[k2], "model")) IN
        \E k \in ScanKeys(table, m), set \in PatchSets : \A f \in DOMAIN defaults(m) :
          Field(table'[k2], f) = IF f \in DOMAIN set THEN normalizeData(set[f])
                                 ELSE Field(table[k], f)

\* C9: defaults are applied only by create, the create of an upsert included: for
\* each default field the created document holds the caller's value (in the codec's
\* normal form) if the payload supplies the field and the default otherwise; an
\* updateMany, updateOne or findOneAndUpdate that inserts nothing, and a save,
\* leave in every default field of what they write a patched value or the value
\* the document had, never a default applied again.
C9_DefaultsOnlyAtCreate ==
  [][/\ Inserted =>
          \A f \in DOMAIN defaults(last'.m) :
            Field(table'[ModelKey(last'.m, last'.id)], f)
              = IF f \in DOMAIN InsertPayload THEN normalizeData(InsertPayload[f])
                ELSE defaults(last'.m)[f]
     /\ ((Step("updateMany") \/ Step("updateOne") \/ Step("findOneAndUpdate")) /\ ~Inserted)
          => DefaultsKept
     /\ Step("save") =>
          \A f \in DOMAIN defaults(held.m) :
            Field(table'[ModelKey(held.m, Field(held.doc, "_id"))], f)
              = normalizeData(Field(held.doc, f))]_vars

\* A document created with a caller's value in a default field was saved at a
\* later instant and still stores the caller's value.
C9_Witness ==
  /\ last.op = "save"
  /\ held.has
  /\ ModelKey(held.m, Field(held.doc, "_id")) \in DOMAIN table
  /\ LET item == table[ModelKey(held.m, Field(held.doc, "_id"))] IN
       /\ Field(item, "isPrimary") = Bool(FALSE)
       /\ Field(item, "isPrimary") /= defaults(held.m)["isPrimary"]
       /\ Field(item, "createdAt") = Iso(0)
       /\ Field(item, "updatedAt") = Iso(MaxClock)

(***************************************************************************)
(* C10.  The model field.                                                  *)
(***************************************************************************)
\* C10: the model field of a stored document never changes: every step leaves the
\* model field of every item that stays stored as it was, a create stores the
\* name of the creating model, and every other item a step adds is stored with
\* the name of a model of the application and under that model's key, whatever
\* the patch of the updateMany, findOneAndUpdate, updateOne or save names.
C10_ModelNeverChanges ==
  [][/\ \A k \in (DOMAIN table) \cap (DOMAIN table') :
          Field(table'[k], "model") = Field(table[k], "model")
     /\ Inserted => Field(table'[ModelKey(last'.m, last'.id)], "model") = Str(last'.m)
     /\ \A k \in (DOMAIN table') \ (DOMAIN table) :
          \E m \in env.models :
            /\ Field(table'[k], "model") = Str(m)
            /\ k = ModelKey(m, Field(table'[k], "_id"))]_vars

\* A save whose document names another model in its model field was stored, with
\* the rest of the patch applied and the model field still the creating model's.
C10_Witness ==
  /\ last.op = "save"
  /\ held.has
  /\ Field(held.doc, "model") = Str("Batch")
  /\ held.m = "UserBatch"
  /\ ModelKey(held.m, Field(held.doc, "_id")) \in DOMAIN table
  /\ LET item == table[ModelKey(held.m, Field(held.doc, "_id"))] IN
       /\ Field(item, "createdAt") = Iso(MaxClock)
       /\ Field(item, "model") = Str("UserBatch")

(***************************************************************************)
(* C11.  Sort, then limit.                                                 *)
(***************************************************************************)
\* A value is missing: absent or null.
Missing(v) == Tag(v) \in {"null", "undef"}

\* The documents a resolved query returned.
Returned == [i \in DOMAIN last.result |-> last.result[i].doc]

\* The query is find({}) sorted by one key and limited to k >= 0, resolved over
\* documents that all hold a number in the key, no two the same.
DistinctSortCase ==
  /\ last.op = "find" /\ last.pc = "done"
  /\ last.filter = EmptyDoc /\ last.field = ""
  /\ ~Falsy(last.sort) /\ Len(last.sort[2]) = 1
  /\ Tag(last.limit) = "num" /\ last.limit[2] >= 0
  /\ \A i \in DOMAIN last.loaded : Tag(getValue(last.loaded[i], last.sort[2][1][1])) = "num"
  /\ \A i, j \in DOMAIN last.loaded :
       i /= j => getValue(last.loaded[i], last.sort[2][1][1])
                   /= getValue(last.loaded[j], last.sort[2][1][1])

\* C11: over documents with pairwise distinct values of x, find({}).sort({x: d})
\* .limit(k) returns exactly min(k, n) of the documents: for d = 1 those with the
\* smallest x in ascending order, for d = -1 those with the largest x in
\* descending order.
C11_SortThenLimit ==
  DistinctSortCase =>
    LET key == last.sort[2][1][1]
        dir == last.sort[2][1][2]
        n == Len(last.loaded)
        k == last.limit[2]
        X(row) == getValue(row, key)[2]
        Before(a, b) == IF dir < 0 THEN a > b ELSE a < b
    IN /\ Len(Returned) = (IF k < n THEN k ELSE n)
       /\ \A i \in DOMAIN Returned : \E j \in DOMAIN last.loaded : Returned[i] = last.loaded[j]
       /\ \A i, j \in DOMAIN Returned : i < j => Before(X(Returned[i]), X(Returned[j]))
       /\ \A j \in DOMAIN last.loaded :
            (\A i \in DOMAIN Returned : Returned[i] /= last.loaded[j])
              => \A i \in DOMAIN Returned : Before(X(Returned[i]), X(last.loaded[j]))

\* Ann with the smaller score and Bo with the larger, sorted by score descending
\* and limited to one: only Bo is returned.
C11_Witness ==
  /\ DistinctSortCase
  /\ Len(last.loaded) = 2
  /\ last.sort[2][1][2] = -1 /\ last.limit = Num(1)
  /\ Len(Returned) = 1
  /\ Field(Returned[1], "name") = Str("Bo")
  /\ \E i \in DOMAIN last.loaded :
       Field(last.loaded[i], "name") = Str("Ann")
         /\ Less(Field(last.loaded[i], "score"), Field(Returned[1], "score"))

(***************************************************************************)
(* C12.  Missing values, ties and stability of the sort.                   *)
(***************************************************************************)
RECURSIVE FirstDifference(_, _, _, _)
\* The first entry of sort, from the i-th on, in which a and b differ; 0 when they
\* are equal in all of them.
FirstDifference(a, b, sort, i) ==
  IF i > Len(sort) THEN 0
  ELSE IF StrictEq(getValue(a, sort[i][1]), getValue(b, sort[i][1]))
  THEN FirstDifference(a, b, sort, i + 1)
  ELSE i

\* output is input reordered so that, of two rows, one with a missing value in the
\* first key they differ in never comes before one that has it, rows that both
\* have it come in the key's direction, and rows equal in every key keep the
\* order they had in input.
SortedAsSpecified(input, output, sort) ==
  /\ Len(output) = Len(input)
  /\ \A i \in DOMAIN input : \E j \in DOMAIN output : output[j] = input[i]
  /\ \A i, j \in DOMAIN output :
       i < j =>
         LET t == FirstDifference(output[i], output[j], sort, 1) IN
           IF t = 0
           THEN \E p, q \in DOMAIN input : p < q /\ input[p] = output[i] /\ input[q] = output[j]
           ELSE LET av == getValue(output[i], sort[t][1])
                    bv == getValue(output[j], sort[t][1])
                IN /\ ~(Missing(av) /\ ~Missing(bv))
                   /\ (~Missing(av) /\ ~Missing(bv)) =>
                        IF sort[t][2] < 0 THEN Less(bv, av) ELSE Less(av, bv)

\* C12: in the query sort and in the aggregation sort stage, a document whose sort
\* field is absent or null comes after every document that has the field, for
\* direction 1 and direction -1; documents equal on one key are ordered by the next
\* key; documents equal on all keys keep their input order.
C12_MissingLastTiesStable ==
  /\ (last.op = "find" /\ last.pc = "sorted" /\ ~Falsy(last.sort))
       => SortedAsSpecified(last.loaded, last.rows, last.sort[2])
  /\ (last.op = "aggregate" /\ Len(last.pipeline) = 1 /\ "$sort" \in DOMAIN last.pipeline[1])
       => SortedAsSpecified(last.loaded, last.rows, last.pipeline[1]["$sort"][2])

\* A query sorted by score descending, then name: the document without a score
\* was loaded first and comes last, and the two with equal scores come by name.
C12_Witness ==
  /\ last.op = "find" /\ last.pc = "sorted"
  /\ ~Falsy(last.sort) /\ Len(last.sort[2]) = 2 /\ last.sort[2][1][2] = -1
  /\ Len(last.rows) = 3
  /\ Missing(Field(last.loaded[1], "score"))
  /\ last.rows[3] = last.loaded[1]
  /\ Field(last.rows[1], "score") = Field(last.rows[2], "score")
  /\ ~Missing(Field(last.rows[1], "score"))
  /\ Field(last.rows[1], "name") = Str("Ann") /\ Field(last.rows[2], "name") = Str("Bo")
  /\ last.loaded[2] = last.rows[2]

(***************************************************************************)
(* C13.  The operators $gt and $in.                                        *)
(***************************************************************************)
\* The query has loaded its rows for a filter of the one key, an operator object
\* with operator op.
LoadedWith(key, op) ==
  /\ last.op = "find" /\ last.pc = "loaded"
  /\ DOMAIN last.filter = {key}
  /\ Tag(last.filter[key]) = "obj" /\ op \in DOMAIN last.filter[key][2]

\* The stored documents of the query's model.
StoredRows == {table[k] : k \in ScanKeys(table, last.m)}

\* The set of the rows the query loaded.
LoadedRows == {last.loaded[i] : i \in DOMAIN last.loaded}

\* C13 as stated: find({score: {$gt: n}}) returns exactly the documents whose
\* score is a number greater than n (a missing, null or non-numeric score is
\* excluded), and find({tag: {$in: S}}) exactly the documents whose tag is a
\* member of S.
C13_OperatorsExact ==
  /\ LoadedWith("score", "$gt") =>
       LoadedRows = {d \in StoredRows :
                       /\ Tag(Field(d, "score")) = "num"
                       /\ Field(d, "score")[2] > last.filter["score"][2]["$gt"][2]}
  /\ LoadedWith("tag", "$in") =>
       LoadedRows = {d \in StoredRows :
                       \E i \in DOMAIN last.filter["tag"][2]["$in"][2] :
                         Field(d, "tag") = last.filter["tag"][2]["$in"][2][i]}

(***************************************************************************)
(* C18.  Paths that do not resolve.                                        *)
(***************************************************************************)
\* C18 as stated: a document on which the filter's dotted path does not resolve
\* is not matched, whatever the form of the filter value (literal, $in, $regex,
\* $gt): every row a query on the path loads has a value at the path.
C18_UnresolvedNeverMatches ==
  (last.op = "find" /\ last.pc = "loaded" /\ DOMAIN last.filter = {"meta.k"})
    => \A i \in DOMAIN last.loaded : getValue(last.loaded[i], "meta.k") /= Undef

(***************************************************************************)
(* C19.  Operator objects the evaluator does not know, and AND.            *)
(***************************************************************************)
\* A filter value that is an operator object with none of $in, $regex, $gt.
Unsupported(v) == Tag(v) = "obj" /\ (DOMAIN v[2]) \cap {"$in", "$regex", "$gt"} = {}

\* The filters of the run with a key whose value is such an object.
UnsupportedFilters == {f \in env.filters : \E key \in DOMAIN f : Unsupported(f[key])}

\* C19: a filter with a key whose value is an operator object of an unsupported
\* shape matches no document, so a find with it loads nothing and an updateMany
\* or deleteMany with it leaves the store as it was; and a filter with several
\* keys matches exactly the documents that each of its keys, taken alone, matches.
C19_UnsupportedMatchesNothing ==
  [][/\ (last'.op = "find" /\ last'.pc = "loaded") =>
          /\ last'.filter \in UnsupportedFilters => last'.loaded = <<>>
          /\ {last'.loaded[i] : i \in DOMAIN last'.loaded}
               = {table[k] : k \in {x \in ScanKeys(table, last'.m) :
                                      \A key \in DOMAIN last'.filter :
                                        matchesFilter(table[x], key :> last'.filter[key])}}
     /\ \A m \in env.models, filter \in UnsupportedFilters :
          /\ (last'.op = "deleteMany" /\ DeleteMany(m, filter)) => table' = table
          /\ \A update \in env.updates :
               (last'.op = "updateMany" /\ UpdateMany(m, filter, update)) => table' = table]_vars

\* A query whose filter has a key every stored document matches beside a key with
\* an unsupported operator object was resolved over a store of three documents
\* and returned nothing.
C19_Witness ==
  /\ last.op = "find" /\ last.pc = "done"
  /\ last.filter \in UnsupportedFilters
  /\ Cardinality(DOMAIN last.filter) = 2
  /\ Cardinality(StoredRows) = 3
  /\ \E d \in StoredRows : Field(d, "tag") = last.filter["tag"]
  /\ last.result = <<>>

(***************************************************************************)
(* C14.  Group accumulation.                                               *)
(***************************************************************************)
\* The aggregation ran a pipeline of the one stage $group.
GroupCase ==
  last.op = "aggregate" /\ Len(last.pipeline) = 1 /\ "$group" \in DOMAIN last.pipeline[1]

\* The serialized grouping key of a row under the $group specification group.
GroupKeyOf(row, group) == Json(evaluateGroupIdExpression(row, Field(group, "_id")))

RECURSIVE SumOver(_, _, _)
\* The sum of the numbers at path over the rows with the indices in members (a
\* row without a number there adds nothing).
SumOver(rows, members, path) ==
  IF members = {} THEN 0
  ELSE LET i == CHOOSE x \in members : TRUE
           v == getValue(rows[i], path)
       IN (IF Tag(v) = "num" THEN v[2] ELSE 0) + SumOver(rows, members \ {i}, path)

\* C14: the group stage outputs exactly one row per distinct serialized grouping
\* key; in each row an accumulator {$sum: field} holds the sum of the field over
\* the rows of the group and an accumulator {$sum: 1} the number of those rows.
C14_GroupAccumulates ==
  GroupCase =>
    LET group == last.pipeline[1]["$group"][2]
        Members(j) == {i \in DOMAIN last.loaded :
                         GroupKeyOf(last.loaded[i], group) = Json(last.rows[j]["_id"])}
    IN /\ \A i \in DOMAIN last.loaded :
            \E j \in DOMAIN last.rows : Json(last.rows[j]["_id"]) = GroupKeyOf(last.loaded[i], group)
       /\ \A j1, j2 \in DOMAIN last.rows :
            Json(last.rows[j1]["_id"]) = Json(last.rows[j2]["_id"]) => j1 = j2
       /\ \A j \in DOMAIN last.rows :
            /\ Members(j) /= {}
            /\ \A f \in AccFields(group) :
                 "$sum" \in DOMAIN group[f][2] =>
                   Field(last.rows[j], f)
                     = IF group[f][2]["$sum"] = Num(1) THEN Num(Cardinality(Members(j)))
                       ELSE Num(SumOver(last.loaded, Members(j), ToStr(group[f][2]["$sum"])))

\* Rows with v = 1, 2 and 3 grouped under a constant key gave one row, total 6.
C14_Witness ==
  /\ GroupCase
  /\ Field(last.pipeline[1]["$group"][2], "_id") = Null
  /\ {Field(last.loaded[i], "v") : i \in DOMAIN last.loaded} = {Num(1), Num(2), Num(3)}
  /\ Len(last.loaded) = 3
  /\ last.rows = <<[_id |-> Null, total |-> Num(6)]>>

(***************************************************************************)
(* C20.  Stages the executor does not know.                                *)
(***************************************************************************)
\* The stage is one aggregateRows acts on: it has a truthy $match, $sort or $group.
Known(stage) ==
  \/ ~Falsy(Field(stage, "$match"))
  \/ ~Falsy(Field(stage, "$sort"))
  \/ ~Falsy(Field(stage, "$group"))

\* C20: a pipeline stage that is none of $match, $sort, $group changes nothing and
\* the other stages still run: the rows a pipeline with such stages returns are
\* rows the pipeline without them returns on the same input, and a pipeline of
\* such stages alone returns its input.
C20_UnknownStageNoOp ==
  (last.op = "aggregate" /\ \E i \in DOMAIN last.pipeline : ~Known(last.pipeline[i]))
    => /\ last.rows \in aggregateRows(last.loaded, SelectSeq(last.pipeline, Known))
       /\ (\A i \in DOMAIN last.pipeline : ~Known(last.pipeline[i])) => last.rows = last.loaded

\* A pipeline of a $limit stage and a $group stage ran over three rows of two
\* tags: all three rows were grouped into two rows.
C20_Witness ==
  /\ last.op = "aggregate" /\ Len(last.pipeline) = 2
  /\ ~Known(last.pipeline[1]) /\ "$group" \in DOMAIN last.pipeline[2]
  /\ Len(last.loaded) = 3
  /\ Len(last.rows) = 2
  /\ \E j \in DOMAIN last.rows : Field(last.rows[j], "n") = Num(2)

(***************************************************************************)
(* C15.  Deletion.                                                         *)
(***************************************************************************)
\* No patch of the run names the id, the key or the model of a document, so a
\* write of an existing document goes to the key the document was created under.
KeysFixed == \A p \in env.patches : DOMAIN p \cap {"_id", "pk", "sk", "model"} = {}

\* C15: deletion is permanent: a document that is not stored (it was deleted) is
\* not stored again by a call that inserts nothing, so no later findById or find
\* returns it; this includes a save() of a copy hydrated before the delete.
C15_DeletionPermanent ==
  [][(KeysFixed /\ ~Inserted) => DOMAIN table' \subseteq DOMAIN table]_vars

(***************************************************************************)
(* C16.  Joins.                                                            *)
(***************************************************************************)
\* The step resolved findOne or findById with populate('batchId') on UserBatch and
\* returned a document that is stored under its id.
JoinedStep ==
  /\ Step("findOne") \/ Step("findById")
  /\ env.fields = {"batchId"}
  /\ held'.has /\ held'.m = "UserBatch"
  /\ ModelKey("UserBatch", Field(held'.doc, "_id")) \in DOMAIN table

\* C16: populate(field) replaces a foreign key by the target document when the
\* target exists and leaves the foreign key as stored when it does not (it is not
\* set to null); no other field of the row is replaced, and the joined document
\* is the stored target with its own foreign keys as stored.
C16_PopulateKeepsMissing ==
  [][JoinedStep =>
       LET stored == table[ModelKey("UserBatch", Field(held'.doc, "_id"))]
           fk == Field(stored, "batchId")
           target == LoadById(table, "Batch", fk)
       IN /\ \A k \in DOMAIN stored \ {"batchId"} : Field(held'.doc, k) = stored[k]
          /\ Field(held'.doc, "batchId")
               = IF ~Falsy(fk) /\ Len(target) = 1 THEN Obj(target[1]) ELSE fk]_vars

(***************************************************************************)
(* C17.  The order of query resolution.                                    *)
(***************************************************************************)
\* Stage q is the one that directly follows stage p in load, sort, limit, join,
\* hydrate.
Follows(p, q) ==
  <<p, q>> \in {<<"built", "loaded">>, <<"loaded", "sorted">>, <<"sorted", "limited">>,
                <<"limited", "joined">>, <<"joined", "done">>}

\* The orders the loaded rows of the builder b can be in after its sort.
SortedLoads(b) == IF Falsy(b.sort) THEN {b.loaded} ELSE SortOutcomes(b.loaded, b.sort[2])

\* C17: a query resolves in the order load, sort, limit, join, hydrate, one step
\* after the other; the rows after the limit step are the first rows of the sorted
\* set; no lookup is issued before the join step, the join step issues lookups
\* only for rows that survived the limit, and a query with limit(k), k >= 0,
\* issues at most k lookups.
C17_StrictOrder ==
  [][(last'.op = "find" /\ last' /= last) =>
       /\ last'.pc = "built" \/ (last.op = "find" /\ Follows(last.pc, last'.pc))
       /\ last'.pc = "limited" =>
            \E sorted \in SortedLoads(last') : last'.rows = Slice(sorted, last'.limit)
       /\ last'.pc \notin {"joined", "done"} => last'.lookups = 0
       /\ last'.pc = "joined" =>
            /\ last'.lookups <= Len(last.rows)
            /\ \E sorted \in SortedLoads(last') : last.rows = Slice(sorted, last'.limit)
       /\ (Tag(last'.limit) = "num" /\ last'.limit[2] >= 0) => last'.lookups <= last'.limit[2]]_vars

\* A sorted query with limit(1) and a join was resolved to the end over two
\* loaded rows that both hold a foreign key: it issued one lookup.
C17_Witness ==
  /\ last.op = "find" /\ last.pc = "done"
  /\ last.limit = Num(1) /\ ~Falsy(last.sort) /\ last.field = "batchId"
  /\ Cardinality({i \in DOMAIN last.loaded : ~Falsy(Field(last.loaded[i], "batchId"))}) >= 2
  /\ Len(last.result) = 1
  /\ last.lookups = 1

(***************************************************************************)
(* C24.  findOneAndUpdate.                                                 *)
(***************************************************************************)
\* The fields a caller's patch or filter may govern: all but the system fields.
CallerFields(doc) == (DOMAIN doc) \ SystemFields

ChangedKeys ==
  {k \in (DOMAIN table) \cup (DOMAIN table') :
     k \notin DOMAIN table \/ k \notin DOMAIN table' \/ table[k] /= table'[k]}

\* The models of the items the step stored, replaced or removed.
ChangedModels ==
  {ToStr(Field(table[k], "model")) : k \in ChangedKeys \cap DOMAIN table}
    \cup {ToStr(Field(table'[k], "model")) : k \in ChangedKeys \cap DOMAIN table'}

\* C27: an operation on one model never returns, modifies or deletes a document a
\* different model stored, also when documents of both models have the same id:
\* every step changes items of one model at most, the model the call was made on
\* where the call records it (create and the upserting calls) or the model of the
\* hydrated document (save, deleteOne), and a document a query returns is the
\* item stored under the key of the queried model.
C27_ModelIsolation ==
  [][/\ Cardinality(ChangedModels) <= 1
     /\ (last'.op \in {"create", "findOneAndUpdate", "updateOne"} /\ last'.m /= "")
          => ChangedModels \subseteq {last'.m}
     /\ (Step("save") \/ Step("deleteOne")) => ChangedModels \subseteq {held.m}
     /\ ((Step("findOne") \/ Step("findById")) /\ held'.has) =>
          /\ ModelKey(held'.m, Field(held'.doc, "_id")) \in DOMAIN table
          /\ Field(held'.doc, "model") = Str(held'.m)
          /\ Field(held'.doc, "pk") = Field(table[ModelKey(held'.m, Field(held'.doc, "_id"))], "pk")]_vars

\* Two models stored a document under the same id; a deleteMany on one of them
\* removed its document and the other model's document is still stored.
C27_Witness ==
  /\ last.op = "deleteMany"
  /\ ModelKey("UserBatch", CallerId) \notin DOMAIN table
  /\ ModelKey("Batch", CallerId) \in DOMAIN table
  /\ held.has /\ held.m = "UserBatch" /\ Field(held.doc, "_id") = CallerId

(***************************************************************************)
(* C26.  Single and plural results.                                        *)
(***************************************************************************)
\* A query was resolved to the end.
Resolved == last.op \in Builders /\ last.pc = "done"

\* C26: a resolved findOne or findById returns the first row of its loaded, sorted
\* and limited set (joined when a join was asked for), or null when that set is
\* empty; findById returns null when no item is stored under the model's key for
\* the id; a resolved find returns the whole sorted and limited sequence, which
\* may be empty.  No resolution ends in anything but one of these results.
C26_SingleOrNull ==
  Resolved =>
    \E sorted \in SortedLoads(last) :
      LET limited == Slice(sorted, last.limit) IN
        /\ last.op \in {"findOne", "findById"} =>
             /\ Len(limited) = 0 => last.result = NoDoc
             /\ Len(limited) > 0 =>
                  /\ last.result.has /\ last.result.m = last.m
                  /\ last.result.doc = PopulateRow(table, last.m, limited[1], last.field)
        /\ (last.op = "findById" /\ ModelKey(last.m, last.filter["_id"]) \notin DOMAIN table)
             => last.result = NoDoc
        /\ last.op = "find" =>
             /\ Len(last.result) = Len(limited)
             /\ \A i \in DOMAIN limited :
                  /\ last.result[i].has
                  /\ last.result[i].doc = PopulateRow(table, last.m, limited[i], last.field)

\* findById was resolved for an id under which the queried model stores nothing
\* while another model stores a document with that id: it returned null.
C26_Witness ==
  /\ Resolved /\ last.op = "findById"
  /\ last.filter["_id"] = CallerId
  /\ ModelKey("Batch", CallerId) \in DOMAIN table
  /\ ScanKeys(table, last.m) /= {}
  /\ last.result = NoDoc

(***************************************************************************)
(* C30.  One reaction per pair.                                            *)
(***************************************************************************)
\* The Like documents stored in tbl.
Likes(tbl) == ScanKeys(tbl, "Like")

\* The pair a Like is about.
PairOf(like) == <<Field(like, "fromUserId"), Field(like, "toUserId")>>

\* The Likes of tbl have pairwise distinct createdAt.
DistinctCreatedAt(tbl) ==
  \A k1, k2 \in Likes(tbl) : tbl[k1]["createdAt"] = tbl[k2]["createdAt"] => k1 = k2

\* C30: enforceSingleProfileReaction run to its end over Likes with pairwise
\* distinct createdAt keeps, of every pair (fromUserId, toUserId), exactly the
\* Like with the greatest createdAt, unchanged, so it deletes no Like of a pair
\* that had only one, and returns the number of Likes it deleted.
C30_OneReactionPerPair ==
  [][Step("enforceSingleProfileReaction") =>
       (DistinctCreatedAt(table) =>
          /\ \A k \in Likes(table) :
               k \in DOMAIN table' <=>
                 \A k2 \in Likes(table) :
                   PairOf(table[k2]) = PairOf(table[k])
                     => table[k2]["createdAt"][2] <= table[k]["createdAt"][2]
          /\ \A k \in DOMAIN table' : k \in DOMAIN table /\ table'[k] = table[k]
          /\ last'.deletedCount = Cardinality(Likes(table)) - Cardinality(Likes(table')))]_vars

\* Three Likes were stored, two of them of one pair; the older of the two was
\* deleted and the count returned is 1.
C30_Witness ==
  /\ last.op = "enforceSingleProfileReaction"
  /\ last.deletedCount = 1
  /\ nextId = MaxLikes + 1
  /\ Cardinality(Likes(table)) = 2
  /\ DistinctCreatedAt(table)
  /\ \A k1, k2 \in Likes(table) : PairOf(table[k1]) = PairOf(table[k2]) => k1 = k2

(***************************************************************************)
(* C21.  updateMany.                                                       *)
(***************************************************************************)
\* One caller, whose calls cannot fail, has run a call of op to its end.
RanAlone(op) ==
  /\ env.procs = 1 /\ ~env.failures
  /\ held[1].pc = "done" /\ held[1].call.op = op

\* The patch of an update object: the fields of its $set, none without one.
SetOf(update) ==
  IF "$set" \in DOMAIN update /\ Tag(update["$set"]) = "obj" THEN update["$set"][2] ELSE EmptyDoc

\* The item new is the item old with the leaf at path set to value: a plain path
\* sets that field; a dotted path sets the leaf in the object above it, which
\* keeps its other fields and is created when old has no object there.
LeafSet(old, new, path, value) ==
  LET segs == Segments(path) IN
    IF Len(segs) = 1 THEN Field(new, path) = value
    ELSE LET before == Field(old, segs[1])
             kept == IF Tag(before) = "obj" THEN before[2] ELSE EmptyDoc
             after == Field(new, segs[1])
         IN /\ Tag(after) = "obj"
            /\ Field(after[2], segs[2]) = value
            /\ DOMAIN after[2] = (DOMAIN kept) \cup {segs[2]}
            /\ \A j \in (DOMAIN kept) \ {segs[2]} : after[2][j] = kept[j]

\* C21: updateMany(filter, {$set: patch}) run to its end by a single caller: every
\* document its scan returned that matches the filter is stored with each path of
\* the patch set (a dotted path sets only its leaf, creates the object above it
\* when missing and leaves that object's other fields alone), with updatedAt
\* refreshed and all fields the patch does not address unchanged; every scanned
\* document that does not match is stored unchanged; nothing else is stored; and
\* modifiedCount is the number of matched documents.
C21_UpdateManyPatches ==
  RanAlone("updateMany") =>
    LET run == held[1]
        set == SetOf(run.call.update)
        touched == {Segments(path)[1] : path \in DOMAIN set} \cup {"updatedAt"}
    IN /\ DOMAIN table = {RowKeyOf(run.rows[i]) : i \in DOMAIN run.rows}
       /\ \A i \in DOMAIN run.rows :
            LET old == run.rows[i]
                new == table[RowKeyOf(old)]
            IN IF matchesFilter(old, run.call.filter)
               THEN /\ \A path \in DOMAIN set : LeafSet(old, new, path, set[path])
                    /\ Field(new, "updatedAt") = Iso(now)
                    /\ \A f \in ((DOMAIN old) \cup (DOMAIN new)) \ touched :
                         Field(new, f) = Field(old, f)
               ELSE new = old
       /\ run.result = Obj([modifiedCount |->
            Num(Cardinality({i \in DOMAIN run.rows : matchesFilter(run.rows[i], run.call.filter)}))])

\* A dotted $set was applied to two matching documents, one with the object and a
\* sibling field in it and one without the object, beside a document that does
\* not match.
C21_Witness ==
  /\ RanAlone("updateMany")
  /\ "meta.k" \in DOMAIN SetOf(held[1].call.update)
  /\ held[1].result = Obj([modifiedCount |-> Num(2)])
  /\ \E k \in DOMAIN table : Field(table[k], "meta") = Obj([k |-> Str("b"), j |-> Str("b")])
  /\ \E k \in DOMAIN table : Field(table[k], "meta") = Obj([k |-> Str("b")])
  /\ \E k \in DOMAIN table : Field(table[k], "tag") = Str("b")

(***************************************************************************)
(* C22.  Backend failures.                                                 *)
(***************************************************************************)
\* In this step the backend rejected a write call of caller p.
Rejected(p) == last' = Sent("error", p) /\ held'[p] /= held[p]

\* C22: when the write call for the k-th target of an updateMany or deleteMany is
\* rejected, the call stops with that error and the rejected call changes
\* nothing; the first k-1 targets are updated or deleted, the k-th and the later
\* targets and the documents that did not match are stored as they were scanned;
\* the loop has issued k write calls, one per target, and the call issues no
\* further storage call.
C22_FailureStopsTheLoop ==
  [][\A p \in DOMAIN held :
       /\ held[p].pc = "failed" => held'[p] = held[p]
       /\ Rejected(p) =>
            LET run == held'[p]
                k == run.i
            IN /\ run.pc = "failed" /\ run.result = Thrown
               /\ table' = table
               /\ run.i = held[p].i /\ run.targets = held[p].targets
               /\ run.writes = k
               /\ \A j \in DOMAIN run.targets :
                    IF j >= k THEN table'[RowKeyOf(run.targets[j])] = run.targets[j]
                    ELSE IF run.call.op = "deleteMany" THEN RowKeyOf(run.targets[j]) \notin DOMAIN table'
                    ELSE /\ \A path \in DOMAIN SetOf(run.call.update) :
                              LeafSet(run.targets[j], table'[RowKeyOf(run.targets[j])], path,
                                      SetOf(run.call.update)[path])
                         /\ Field(table'[RowKeyOf(run.targets[j])], "updatedAt") = Iso(now)
               /\ \A i \in DOMAIN run.rows :
                    ~matchesFilter(run.rows[i], run.call.filter)
                      => table'[RowKeyOf(run.rows[i])] = run.rows[i]]_vars

\* An updateMany over three documents failed at its second write call: the first
\* document is updated, the other two are not, and two write calls were issued.
C22_Witness ==
  /\ env.failures
  /\ held[1].pc = "failed" /\ held[1].call.op = "updateMany"
  /\ Len(held[1].targets) = 3 /\ held[1].i = 2 /\ held[1].writes = 2
  /\ Field(table[RowKeyOf(held[1].targets[1])], "tag") = Str("c")
  /\ table[RowKeyOf(held[1].targets[2])] = held[1].targets[2]
  /\ table[RowKeyOf(held[1].targets[3])] = held[1].targets[3]

(***************************************************************************)
(* C23.  Last writer wins.                                                 *)
(***************************************************************************)
\* The fields the call of a run sets: the $set of an updateMany, the fields a
\* caller assigned before save.
PatchOf(run) == IF run.call.op = "updateMany" THEN SetOf(run.call.update) ELSE run.call.update

\* The keys of the documents a finished run wrote.
WroteKeys(run) == {RowKeyOf(run.targets[i]) : i \in DOMAIN run.targets}

\* The document the run read under key k.
ReadAs(run, k) == run.rows[CHOOSE i \in DOMAIN run.rows : RowKeyOf(run.rows[i]) = k]

\* The item new is the whole-document snapshot of a writer that read old and set
\* patch: the patch's values, a fresh updatedAt, and old's value in every other
\* field.
SnapshotOf(new, old, patch) ==
  /\ \A f \in DOMAIN patch : Field(new, f) = patch[f]
  /\ \A f \in ((DOMAIN new) \cup (DOMAIN old)) \ ((DOMAIN patch) \cup {"updatedAt"}) :
       Field(new, f) = Field(old, f)

\* C23: when two mutators (updateMany calls, or an updateMany and a save) have both
\* read a document before either wrote it and both have completed, neither ended
\* in an error and the stored document is the whole-document snapshot of one of
\* them, the patch of that writer over the document as read, so the other
\* writer's changes to other fields are lost; the document written by the latest
\* put is the snapshot of the caller that issued it.
C23_LastWriterWins ==
  \A p, q \in DOMAIN held :
    (p /= q /\ held[p].pc = "done" /\ held[q].pc = "done"
       /\ held[p].call.op \in {"updateMany", "save"} /\ held[q].call.op \in {"updateMany", "save"}) =>
      /\ held[p].result /= Thrown /\ held[q].result /= Thrown
      /\ \A k \in WroteKeys(held[p]) \cap WroteKeys(held[q]) :
           ReadAs(held[p], k) = ReadAs(held[q], k) =>
             /\ \/ SnapshotOf(table[k], ReadAs(held[p], k), PatchOf(held[p]))
                \/ SnapshotOf(table[k], ReadAs(held[q], k), PatchOf(held[q]))
             /\ (last = Sent("put", p) /\ k = RowKeyOf(held[p].targets[Len(held[p].targets)]))
                  => SnapshotOf(table[k], ReadAs(held[p], k), PatchOf(held[p]))

\* Two updateMany calls read the same document, one set its tag and the other its
\* score; the one that set the tag wrote last and the new score is lost.
C23_Witness ==
  /\ env.procs = 2
  /\ held[1].pc = "done" /\ held[2].pc = "done"
  /\ PatchOf(held[1]) = [tag |-> Str("b")] /\ PatchOf(held[2]) = [score |-> Num(2)]
  /\ held[1].call.op = "updateMany" /\ held[2].call.op = "updateMany"
  /\ held[1].rows = held[2].rows /\ Len(held[1].rows) = 1
  /\ last = Sent("put", 1)
  /\ \A k \in DOMAIN table : table[k]["tag"] = Str("b") /\ table[k]["score"] = Num(1)


\* out after the pages were pushed in the order they were answered.
RECURSIVE Pushed(_)
Pushed(pages) == IF Len(pages) = 0 THEN <<>> ELSE Head(pages) \o Pushed(Tail(pages))

\* The step answered a ScanCommand of caller p.
Answered(p) == held[p].pc = "scan" /\ last' = Sent("scan", p) /\ held'[p] /= held[p]

\* The rows hold every item of model m in the store, each once, as stored.
WholeScan(rows, tbl, m) ==
  /\ Len(rows) = Cardinality(ScanKeys(tbl, m))
  /\ {RowKeyOf(rows[i]) : i \in DOMAIN rows} = ScanKeys(tbl, m)
  /\ \A i \in DOMAIN rows : rows[i] = tbl[RowKeyOf(rows[i])]

\* C25: _scanAll asks for a further page whenever the page just answered carried
\* a continuation token and returns only on a page without one; the rows it has
\* are the items of its pages, each once and in page order; and when the call
\* moves on from its scan (to count, to plan its updates or deletes, to return)
\* the rows are, for a caller running alone, all the stored items of the model,
\* and what the call goes on with is computed from all of them.
C25_ScanComplete ==
  [][\A p \in DOMAIN held :
       Answered(p)
         => LET run == held'[p]
            IN /\ run.rows = Pushed(run.pages)
               /\ Len(run.pages) = Len(held[p].pages) + 1
               /\ \A i, j \in DOMAIN run.rows :
                    RowKeyOf(run.rows[i]) = RowKeyOf(run.rows[j]) => i = j
               /\ run.token => run.pc = "scan"
               /\ run.pc /= "scan"
                    => /\ ~run.token
                       /\ env.procs = 1
                            => /\ WholeScan(run.rows, table, run.call.m)
                               /\ run.call.op = "countDocuments"
                                    => run.result
                                         = Num(Cardinality(Matching(table, run.call.m,
                                                                    run.call.filter)))
                               /\ run.call.op \in {"updateMany", "deleteMany"}
                                    => {RowKeyOf(run.targets[i]) : i \in DOMAIN run.targets}
                                         = Matching(table, run.call.m, run.call.filter)]_vars

\* A count over three stored documents whose scan was answered in three pages of
\* one item has returned 3.
C25_Witness ==
  /\ env = PageFamily
  /\ held[1].call.op = "countDocuments"
  /\ held[1].pc = "done"
  /\ Len(held[1].pages) = MaxDocs
  /\ \A i \in DOMAIN held[1].pages : Len(held[1].pages[i]) = 1
  /\ held[1].result = Num(MaxDocs)


\* Both callers have completed an upsert under the same literal filter, and the
\* scan of neither returned a document matching it: each was started, and had
\* read, before the other's put.
BothUpserted ==
  /\ DOMAIN held = {1, 2}
  /\ \A p \in DOMAIN held :
       /\ held[p].pc = "done"
       /\ held[p].call.op \in {"findOneAndUpdate", "updateOne"}
       /\ held[p].call.upsert
       /\ held[p].call.filter = held[1].call.filter
       /\ held[p].call.m = held[1].call.m
       /\ Len(FilterSeq(held[p].rows, held[p].call.filter, 1)) = 0

\* C28: two concurrent upserts (findOneAndUpdate or updateOne with upsert: true)
\* under the same literal filter, started when no document matches, leave
\* exactly one document matching the filter once both have completed.
C28_ConcurrentUpsertsOneMatch ==
  BothUpserted
    => Cardinality(Matching(table, held[1].call.m, held[1].call.filter)) = 1


\* The step is the put of caller p's save().
Saved(p) ==
  /\ held[p].pc = "write"
  /\ held[p].call.op = "save"
  /\ last' = Sent("put", p)

\* The fields _put adds to the data it stores.
KeyFields == {"model", "pk", "sk"}

\* C29: save() on a document loaded through find (with or without a projection)
\* and changed in memory stores, under the document's key, an item whose fields
\* are exactly the fields the document has in memory, with their values, plus
\* model, pk and sk: every field of the item stored before that the document
\* does not have in memory (the projection left it out) is gone after the save.
C29_SaveReplacesWhole ==
  [][\A p \in DOMAIN held :
       Saved(p)
         => LET doc == held[p].targets[1]
                m == held[p].call.m
                k == ModelKey(m, Field(doc, "_id"))
            IN /\ k \in DOMAIN table'
               /\ DOMAIN table'[k] = (DOMAIN doc) \cup KeyFields
               /\ \A f \in (DOMAIN doc) \ KeyFields : table'[k][f] = doc[f]
               /\ Field(table'[k], "model") = Str(m)
               /\ RowKeyOf(table'[k]) = k
               /\ Field(doc, "updatedAt") = Iso(now)
               /\ k \in DOMAIN table
                    => \A f \in (DOMAIN table[k]) \ ((DOMAIN doc) \cup KeyFields) :
                         f \notin DOMAIN table'[k]
               /\ \A j \in (DOMAIN table) \ {k} :
                    j \in DOMAIN table' /\ table'[j] = table[j]]_vars

\* A document with a score was loaded with the projection {name: 1}, renamed and
\* saved: the stored item has the new name and neither score nor createdAt.
C29_Witness ==
  /\ env = ProjectionFamily
  /\ held[1].pc = "done"
  /\ held[1].call.projection = Obj([name |-> Num(1)])
  /\ \E i \in DOMAIN held[1].rows :
       /\ "score" \in DOMAIN held[1].rows[i]
       /\ "createdAt" \in DOMAIN held[1].rows[i]
       /\ RowKeyOf(held[1].rows[i]) \in DOMAIN table
       /\ LET item == table[RowKeyOf(held[1].rows[i])]
          IN /\ Field(item, "name") = Str("Bo")
             /\ "score" \notin DOMAIN item
             /\ "createdAt" \notin DOMAIN item

=============================================================================
